---- MODULE Spec2Model ----
(***************************************************************************)
(* Model of the ROCK SPI verification environment (cocotb_rock):           *)
(*   - RockSpiDriver.driver_send / gen_cs_sclk and RockSpiMonitor.receive  *)
(*     as three clock-synchronised coroutines (specification SpecFrame);   *)
(*   - RockSpiTrx.randomize / post_randomize, the RockTestBench.run loop   *)
(*     with the register model and catch_reset (specification Spec);       *)
(*   - the CoverPoint / CoverCross covered-bins accounting of              *)
(*     cocotb_util/cocotb_coverage.py (specification SpecCover), and of    *)
(*     CoverProcessor of cocotb_util/cocotb_cover.py (SpecProcessor);      *)
(*   - run_tb with the frames on the bus, the callbacks of the monitor,    *)
(*     the scoreboard and the pulse task (specifications SpecRun and,      *)
(*     under the scheduler of the simulator, SpecRunFair);                 *)
(*   - RockTestBench.init over register maps with array declarations       *)
(*     (SpecInit) and randomize with covered registers (SpecGen).          *)
(***************************************************************************)
EXTENDS Integers, Sequences, FiniteSets, TLC

VARIABLES
    \* ---- bit level (SpecFrame) ----
    trx,        \* the transaction handed to the driver / produced by the sequencer
    chip_addr,  \* RockSpiDriver.chip_addr (soft config)
    rsp,        \* what the device answers on MISO during a read response frame
    xbit,       \* <<line, bit index>> at which a line reads undefined, or NoX
    bus,        \* i_cs_n, i_sclk, i_mosi, o_miso
    gen,        \* position of gen_cs_sclk
    drv,        \* position of driver_send
    mon,        \* position and locals of RockSpiMonitor.receive
    wake,       \* coroutines resumed by an edge and not yet run
    received,   \* triples returned by receive, in order
    driven,     \* <<bit index, value>> written to i_mosi by driver_send, in order
    windows,    \* clock pulses of every completed chip-select window, in order
    \* ---- test bench (Spec) ----
    pc,         \* position of RockTestBench.run / TestBench.sequencer
    seq_args,   \* the *args the sequencer hands to the transaction constructor
    runs,       \* TestBench.runs
    regs,       \* the register model self.regs
    reg_keys,   \* list(self.regs.keys()): the keys of self.regs in insertion order
    got,        \* the triple last delivered by the monitor
    err,        \* the exception that ended the run, "none" while it runs
    hist,       \* the transactions sent so far, as run saw them
    expected,   \* the monitor's expectation queue (monitor.expected)
    sb,         \* the scoreboard: its mode and the mismatches it counted
    final,      \* what run_tb did after the loop, in order
    \* ---- coverage (Spec, SpecCover) ----
    cov,        \* the cover items of coverage_db
    samples,    \* number of collect calls made
    updates,    \* number of calls of update_covered_bins made outside a sample
    \* ---- the pulse task (SpecRun) ----
    mce         \* position of emulate_mce_frame and the value of I_MCE

fvars == <<chip_addr, rsp, xbit, bus, gen, drv, mon, wake, received, driven, windows>>

\* the scoreboard side of the bench
svars == <<expected, sb, final>>

tvars == <<pc, seq_args, runs, regs, reg_keys, got, err, hist, svars>>

cvars == <<cov, samples, updates>>

vars == <<trx, chip_addr, rsp, xbit, bus, gen, drv, mon, wake, received, driven, windows,
          pc, seq_args, runs, regs, reg_keys, got, err, hist, expected, sb, final, cov, samples, updates, mce>>

----------------------------------------------------------------------------
(* Constants of the SPI bus                                                 *)

n_sclk == 32
brd == 0
rsv == 0
stop_bit == 1
X == -1         \* BinaryValue('x'): the released / undefined line value
None == -2      \* Python None

AddrBits == 8
DataBits == 16

Pow2(n) == 2 ^ n

\* (v >> k) & 1
Bit(v, k) == (v \div Pow2(k)) % 2

\* (acc << 1) | b   for a defined bit b
ShiftIn(acc, b) == 2 * acc + b

----------------------------------------------------------------------------
(* Inputs of the bit-level specification                                    *)

AddrSamples == {0, 2, 147, 170, 255}
DataSamples == {0, 1, 9, 21845, 43690, 65535}
ChipAddrSamples == {0, 5, 6}
RspDataSamples == {0, 9, 40962, 65535}

\* mutant: the address bound is inclusive
check_trx_AddrInclusive(t) ==
    /\ t.wrn # None /\ t.reg_addr # None /\ t.reg_data # None
    /\ t.wrn \in {0, 1}
    /\ t.reg_addr >= 0 /\ t.reg_addr <= Pow2(AddrBits)
    /\ t.reg_data >= 0 /\ t.reg_data < Pow2(DataBits)

\* RockSpiDriver.check_trx: the conditions a transaction must satisfy
\* (isinstance(.., int) fails for an item left None)
check_trx(t) ==
    /\ t.wrn # None /\ t.reg_addr # None /\ t.reg_data # None
    /\ t.wrn \in {0, 1}
    /\ t.reg_addr >= 0 /\ t.reg_addr < Pow2(AddrBits)
    /\ t.reg_data >= 0 /\ t.reg_data < Pow2(DataBits)

\* mutant: register address sent least significant bit first
MosiBit_AddrLsbFirst(i, t, ca) ==
    CASE i \in {31, 30, 29} -> Bit(ca, i - 29)
      [] i = 28             -> t.wrn
      [] i = 27             -> brd
      [] i \in 19..26       -> Bit(t.reg_addr, 26 - i)
      [] i \in 3..18        -> Bit(t.reg_data, i - 3)
      [] i \in {1, 2}       -> rsv
      [] i = 0              -> stop_bit

\* mutant: register data field placed one bit too low (bits 17..2)
MosiBit_DataShifted(i, t, ca) ==
    CASE i \in {31, 30, 29} -> Bit(ca, i - 29)
      [] i = 28             -> t.wrn
      [] i = 27             -> brd
      [] i \in 19..26       -> Bit(t.reg_addr, i - 19)
      [] i = 18             -> 0
      [] i \in 2..17        -> Bit(t.reg_data, i - 2)
      [] i = 1              -> rsv
      [] i = 0              -> stop_bit

\* Value written to i_mosi for bit index i (driver_send, the if/elif chain)
MosiBit(i, t, ca) ==
    CASE i \in {31, 30, 29} -> Bit(ca, i - 29)
      [] i = 28             -> t.wrn
      [] i = 27             -> brd
      [] i \in 19..26       -> Bit(t.reg_addr, i - 19)
      [] i \in 3..18        -> Bit(t.reg_data, i - 3)
      [] i \in {1, 2}       -> rsv
      [] i = 0              -> stop_bit

\* Value the device drives on o_miso for bit index i of the response frame
MisoBit(i, r) ==
    CASE i \in 26..31       -> 0
      [] i = 25             -> 1
      [] i \in 22..24       -> Bit(r.chip, i - 22)
      [] i = 21             -> 0
      [] i = 20             -> 0
      [] i \in 4..19        -> Bit(r.data, i - 4)
      [] i = 3              -> r.status
      [] i \in 0..2         -> 0

\* no line reads undefined
NoX == <<"none", 0>>

\* the value a line carries at bit index i when v is driven on it
LineValue(line, i, v) == IF xbit = <<line, i>> THEN X ELSE v

\* I_MCE is 0 and emulate_mce_frame is not started (test_spi_write)
MceInit == [pc |-> "off", value |-> 0]

----------------------------------------------------------------------------
(* gen_cs_sclk: chip select and 32 clock pulses                             *)

MonAwaitsCsFall == mon.pc \in {"idle", "await_resp"}

\* first segment: cs_n = 0, sclk = 0, await Timer(half period)
GenBegin(frame) ==
    /\ bus' = [bus EXCEPT !.cs_n = 0, !.sclk = 0]
    /\ gen' = [pc |-> "low", k |-> 0, frame |-> frame]
    /\ wake' = IF MonAwaitsCsFall /\ bus.cs_n = 1 THEN wake \cup {"mon"} ELSE wake

GenStart ==
    /\ gen.pc = "start"
    /\ wake = {}
    /\ GenBegin(1)
    /\ UNCHANGED <<trx, chip_addr, rsp, xbit, drv, mon, received, driven, windows, tvars, cvars, mce>>

\* mutant: the monitor is resumed by the rising clock edge as well
GenRise_MonitorOnRisingEdge ==
    /\ gen.pc = "low"
    /\ wake = {}
    /\ mon.pc # "resp_wait"
    /\ bus' = [bus EXCEPT !.sclk = 1,
                          !.miso = IF gen.frame = 2
                                   THEN LineValue("miso", n_sclk - 1 - gen.k,
                                                  MisoBit(n_sclk - 1 - gen.k, rsp))
                                   ELSE @]
    /\ gen' = [gen EXCEPT !.pc = "high"]
    /\ wake' = (IF drv.pc = "wait_re" THEN {"drv"} ELSE {})
               \cup (IF mon.pc = "rx" THEN {"mon"} ELSE {})
    /\ UNCHANGED <<trx, chip_addr, rsp, xbit, drv, mon, received, driven, windows, tvars, cvars, mce>>

\* sclk = 1, await Timer(half period); the Timer(1 ns) of receive has expired
GenRise ==
    /\ gen.pc = "low"
    /\ wake = {}
    /\ mon.pc # "resp_wait"
    /\ bus' = [bus EXCEPT !.sclk = 1,
                          !.miso = IF gen.frame = 2
                                   THEN LineValue("miso", n_sclk - 1 - gen.k,
                                                  MisoBit(n_sclk - 1 - gen.k, rsp))
                                   ELSE @]
    /\ gen' = [gen EXCEPT !.pc = "high"]
    /\ wake' = IF drv.pc = "wait_re" THEN {"drv"} ELSE {}
    /\ UNCHANGED <<trx, chip_addr, rsp, xbit, drv, mon, received, driven, windows, tvars, cvars, mce>>

\* sclk = 0 (top of the next iteration, or the statement after the loop); the
\* Timer(1 ns) of driver_send has expired
GenFall ==
    /\ gen.pc = "high"
    /\ wake = {}
    /\ drv.pc # "bit_wait"
    /\ bus' = [bus EXCEPT !.sclk = 0]
    /\ gen' = [gen EXCEPT !.k = @ + 1,
                          !.pc = IF gen.k + 1 < n_sclk THEN "low" ELSE "tail"]
    /\ wake' = IF mon.pc \in {"rx", "rx_resp"} THEN {"mon"} ELSE {}
    /\ UNCHANGED <<trx, chip_addr, rsp, xbit, drv, mon, received, driven, windows, tvars, cvars, mce>>

\* after Timer(20 ns): cs_n = 1; the awaiting driver_send continues for frame 2
GenEnd ==
    /\ gen.pc = "tail"
    /\ wake = {}
    /\ mon.pc # "resp_wait"
    /\ bus' = [bus EXCEPT !.cs_n = 1]
    /\ gen' = [gen EXCEPT !.pc = "off"]
    /\ windows' = Append(windows, gen.k)
    /\ wake' = (IF drv.pc = "wait_cs_re" THEN {"drv"} ELSE {})
               \cup (IF mon.pc = "await_cs_re" THEN {"mon"} ELSE {})
    /\ drv' = IF gen.frame = 2 THEN [drv EXCEPT !.pc = "rpause"] ELSE drv
    /\ UNCHANGED <<trx, chip_addr, rsp, xbit, mon, received, driven, tvars, cvars, mce>>

----------------------------------------------------------------------------
(* driver_send                                                              *)

\* start_soon(gen_cs_sclk()); i = 31; await RisingEdge(sclk)
DrvStart ==
    /\ drv.pc = "idle"
    /\ check_trx(trx)
    /\ drv' = [drv EXCEPT !.pc = "wait_re", !.i = n_sclk - 1]
    /\ gen' = [gen EXCEPT !.pc = "start"]
    /\ UNCHANGED <<trx, chip_addr, rsp, xbit, bus, mon, wake, received, driven, windows, tvars, cvars, mce>>

\* BusDriver._driver_send: check_trx raises before driver_send is entered
DrvReject ==
    /\ drv.pc = "idle"
    /\ ~check_trx(trx)
    /\ drv' = [drv EXCEPT !.pc = "rejected"]
    /\ UNCHANGED <<trx, chip_addr, rsp, xbit, bus, gen, mon, wake, received, driven, windows, tvars, cvars, mce>>

\* mutant: driver_send returns once the last bit is driven
DrvBit_ReturnsAfterLastBit ==
    /\ "drv" \in wake
    /\ drv.pc = "wait_re"
    /\ bus' = [bus EXCEPT !.mosi = LineValue("mosi", drv.i, MosiBit(drv.i, trx, chip_addr))]
    /\ driven' = Append(driven, <<drv.i, MosiBit(drv.i, trx, chip_addr)>>)
    /\ drv' = IF drv.i > 0 THEN [drv EXCEPT !.pc = "bit_wait"]
              ELSE [drv EXCEPT !.pc = "done"]
    /\ wake' = wake \ {"drv"}
    /\ UNCHANGED <<trx, chip_addr, rsp, xbit, gen, mon, received, windows, tvars, cvars, mce>>

\* after RisingEdge(sclk): drive bit i, await Timer(1 ns)
DrvBit ==
    /\ "drv" \in wake
    /\ drv.pc = "wait_re"
    /\ bus' = [bus EXCEPT !.mosi = LineValue("mosi", drv.i, MosiBit(drv.i, trx, chip_addr))]
    /\ driven' = Append(driven, <<drv.i, MosiBit(drv.i, trx, chip_addr)>>)
    /\ drv' = [drv EXCEPT !.pc = "bit_wait"]
    /\ wake' = wake \ {"drv"}
    /\ UNCHANGED <<trx, chip_addr, rsp, xbit, gen, mon, received, windows, tvars, cvars, mce>>

\* after Timer(1 ns): the next iteration awaits RisingEdge(sclk); after bit 0
\* driver_send awaits RisingEdge(cs_n)
DrvBitNext ==
    /\ drv.pc = "bit_wait"
    /\ wake = {}
    /\ drv' = IF drv.i > 0 THEN [drv EXCEPT !.pc = "wait_re", !.i = @ - 1]
              ELSE [drv EXCEPT !.pc = "wait_cs_re"]
    /\ UNCHANGED <<trx, chip_addr, rsp, xbit, bus, gen, mon, wake, received, driven, windows,
                   tvars, cvars, mce>>

\* after RisingEdge(cs_n): release mosi, Timer(200 ns)
DrvRelease ==
    /\ "drv" \in wake
    /\ drv.pc = "wait_cs_re"
    /\ bus' = [bus EXCEPT !.mosi = X]
    /\ drv' = [drv EXCEPT !.pc = "pause"]
    /\ wake' = wake \ {"drv"}
    /\ UNCHANGED <<trx, chip_addr, rsp, xbit, gen, mon, received, driven, windows, tvars, cvars, mce>>

\* mutant: the second frame is sent for a Write as well
DrvPauseEnd_AlwaysSecondFrame ==
    /\ drv.pc = "pause"
    /\ wake = {}
    /\ GenBegin(2)
    /\ drv' = [drv EXCEPT !.pc = "resp"]
    /\ UNCHANGED <<trx, chip_addr, rsp, xbit, mon, received, driven, windows, tvars, cvars, mce>>

\* pause over: a write is finished, a read runs gen_cs_sclk a second time
DrvPauseEnd ==
    /\ drv.pc = "pause"
    /\ wake = {}
    /\ IF trx.wrn = 0
       THEN /\ GenBegin(2)
            /\ drv' = [drv EXCEPT !.pc = "resp"]
       ELSE /\ drv' = [drv EXCEPT !.pc = "done"]
            /\ UNCHANGED <<bus, gen, wake>>
    /\ UNCHANGED <<trx, chip_addr, rsp, xbit, mon, received, driven, windows, tvars, cvars, mce>>

\* Timer(np.random.randint(10, 200)) after the response frame
PauseSamples == {10, 199}

DrvRandPause ==
    /\ drv.pc = "rpause"
    /\ wake = {}
    /\ \E p \in PauseSamples : drv' = [drv EXCEPT !.pc = "done", !.pause = p]
    /\ UNCHANGED <<trx, chip_addr, rsp, xbit, bus, gen, mon, wake, received, driven, windows, tvars, cvars, mce>>

----------------------------------------------------------------------------
(* RockSpiMonitor.receive                                                   *)

MonInit == [pc |-> "idle", i |-> 0, chip_addr_wr |-> 0, wrn |-> None, reg_addr |-> 0,
            reg_data_wr |-> 0, reg_data_rd |-> 0, chip_addr_rd |-> 0, err |-> "none"]

\* after FallingEdge(cs_n): clear the accumulators, await FallingEdge(sclk)
MonStart ==
    /\ "mon" \in wake
    /\ mon.pc = "idle"
    /\ mon' = [MonInit EXCEPT !.pc = "rx", !.i = n_sclk - 1]
    /\ wake' = wake \ {"mon"}
    /\ UNCHANGED <<trx, chip_addr, rsp, xbit, bus, gen, drv, received, driven, windows, tvars, cvars, mce>>

\* the request-frame decode of one sampled bit b at index i
ReqDecode(m, i, b) ==
    CASE i \in {31, 30, 29} -> [m EXCEPT !.chip_addr_wr = ShiftIn(@, b)]
      [] i = 28             -> [m EXCEPT !.wrn = IF b = 0 THEN 0 ELSE 1]
      [] i \in 19..26       -> [m EXCEPT !.reg_addr = ShiftIn(@, b)]
      [] i \in 3..18        -> [m EXCEPT !.reg_data_wr = ShiftIn(@, b)]
      [] OTHER              -> m

\* reg_data = reg_data_rd if wrn == 0 else reg_data_wr; return wrn, reg_addr, reg_data
Triple(m) == <<m.wrn, m.reg_addr, IF m.wrn = 0 THEN m.reg_data_rd ELSE m.reg_data_wr>>

\* mutant: the triple of a Read is returned after the request frame
MonSample_ReadReturnsAtRequest ==
    /\ "mon" \in wake
    /\ mon.pc = "rx"
    /\ wake' = wake \ {"mon"}
    /\ LET b == bus.mosi
           m == ReqDecode(mon, mon.i, b)
       IN  IF b \notin {0, 1}
           THEN /\ mon' = [mon EXCEPT !.pc = "failed", !.err = "undefined mosi"]
                /\ UNCHANGED received
           ELSE IF mon.i = 0 /\ b # stop_bit
           THEN /\ mon' = [mon EXCEPT !.pc = "failed", !.err = "stop bit"]
                /\ UNCHANGED received
           ELSE IF mon.i > 0
           THEN /\ mon' = [m EXCEPT !.i = @ - 1]
                /\ UNCHANGED received
           ELSE /\ mon' = [m EXCEPT !.pc = "idle"]
                /\ received' = Append(received, Triple(m))
    /\ UNCHANGED <<trx, chip_addr, rsp, xbit, bus, gen, drv, driven, windows, tvars, cvars, mce>>

\* after FallingEdge(sclk) in the request frame
MonSample ==
    /\ "mon" \in wake
    /\ mon.pc = "rx"
    /\ wake' = wake \ {"mon"}
    /\ LET b == bus.mosi
           m == ReqDecode(mon, mon.i, b)
       IN  IF b \notin {0, 1}
           THEN /\ mon' = [mon EXCEPT !.pc = "failed", !.err = "undefined mosi"]
                /\ UNCHANGED received
           ELSE IF mon.i = 0 /\ b # stop_bit
           THEN /\ mon' = [mon EXCEPT !.pc = "failed", !.err = "stop bit"]
                /\ UNCHANGED received
           ELSE IF mon.i > 0
           THEN /\ mon' = [m EXCEPT !.i = @ - 1]
                /\ UNCHANGED received
           ELSE IF m.wrn = 0
           THEN /\ mon' = [m EXCEPT !.pc = "await_resp"]
                /\ UNCHANGED received
           ELSE /\ mon' = [m EXCEPT !.pc = "idle"]
                /\ received' = Append(received, Triple(m))
    /\ UNCHANGED <<trx, chip_addr, rsp, xbit, bus, gen, drv, driven, windows, tvars, cvars, mce>>

\* after the second FallingEdge(cs_n)
MonRespStart ==
    /\ "mon" \in wake
    /\ mon.pc = "await_resp"
    /\ mon' = [mon EXCEPT !.pc = "rx_resp", !.i = n_sclk - 1, !.chip_addr_rd = 0]
    /\ wake' = wake \ {"mon"}
    /\ UNCHANGED <<trx, chip_addr, rsp, xbit, bus, gen, drv, received, driven, windows, tvars, cvars, mce>>

\* mutant: the chip address of the response is taken from bits 25..23
RespDecode_ChipAddrBits(m, i, b) ==
    CASE i \in {25, 24, 23} -> [m EXCEPT !.chip_addr_rd = ShiftIn(@, b)]
      [] i \in 4..19        -> [m EXCEPT !.reg_data_rd = ShiftIn(@, b)]
      [] OTHER              -> m

\* mutant: the data of the response is taken from bits 18..3
RespDecode_DataBits18to3(m, i, b) ==
    CASE i \in {24, 23, 22} -> [m EXCEPT !.chip_addr_rd = ShiftIn(@, b)]
      [] i \in 3..18        -> [m EXCEPT !.reg_data_rd = ShiftIn(@, b)]
      [] OTHER              -> m

\* the response-frame decode of one sampled bit b at index i
RespDecode(m, i, b) ==
    CASE i \in {24, 23, 22} -> [m EXCEPT !.chip_addr_rd = ShiftIn(@, b)]
      [] i \in 4..19        -> [m EXCEPT !.reg_data_rd = ShiftIn(@, b)]
      [] OTHER              -> m

\* mutant: the sample is not asserted to be 0 or 1
MonRespSample_NoDefinedAssert ==
    /\ "mon" \in wake
    /\ mon.pc = "rx_resp"
    /\ wake' = wake \ {"mon"}
    /\ LET b == bus.miso
           m == RespDecode(mon, mon.i, b)
       IN  IF FALSE
           THEN mon' = [mon EXCEPT !.pc = "failed", !.err = "undefined miso"]
           ELSE IF mon.i = 21 /\ m.chip_addr_wr # m.chip_addr_rd
           THEN mon' = [mon EXCEPT !.pc = "failed", !.err = "chip addr mismatch"]
           ELSE IF mon.i = 3 /\ b # 0
           THEN mon' = [mon EXCEPT !.pc = "failed", !.err = "read status"]
           ELSE mon' = [m EXCEPT !.pc = "resp_wait"]
    /\ UNCHANGED <<trx, chip_addr, rsp, xbit, bus, gen, drv, received, driven, windows, tvars, cvars, mce>>

\* mutant: the status is looked for at bit 4
MonRespSample_StatusAtBit4 ==
    /\ "mon" \in wake
    /\ mon.pc = "rx_resp"
    /\ wake' = wake \ {"mon"}
    /\ LET b == bus.miso
           m == RespDecode(mon, mon.i, b)
       IN  IF b \notin {0, 1}
           THEN mon' = [mon EXCEPT !.pc = "failed", !.err = "undefined miso"]
           ELSE IF mon.i = 21 /\ m.chip_addr_wr # m.chip_addr_rd
           THEN mon' = [mon EXCEPT !.pc = "failed", !.err = "chip addr mismatch"]
           ELSE IF mon.i = 4 /\ b # 0
           THEN mon' = [mon EXCEPT !.pc = "failed", !.err = "read status"]
           ELSE mon' = [m EXCEPT !.pc = "resp_wait"]
    /\ UNCHANGED <<trx, chip_addr, rsp, xbit, bus, gen, drv, received, driven, windows, tvars, cvars, mce>>

\* after FallingEdge(sclk) in the response frame: assert, decode, await Timer(1 ns)
MonRespSample ==
    /\ "mon" \in wake
    /\ mon.pc = "rx_resp"
    /\ wake' = wake \ {"mon"}
    /\ LET b == bus.miso
           m == RespDecode(mon, mon.i, b)
       IN  IF b \notin {0, 1}
           THEN mon' = [mon EXCEPT !.pc = "failed", !.err = "undefined miso"]
           ELSE IF mon.i = 21 /\ m.chip_addr_wr # m.chip_addr_rd
           THEN mon' = [mon EXCEPT !.pc = "failed", !.err = "chip addr mismatch"]
           ELSE IF mon.i = 3 /\ b # 0
           THEN mon' = [mon EXCEPT !.pc = "failed", !.err = "read status"]
           ELSE mon' = [m EXCEPT !.pc = "resp_wait"]
    /\ UNCHANGED <<trx, chip_addr, rsp, xbit, bus, gen, drv, received, driven, windows, tvars, cvars, mce>>

\* after Timer(1 ns): the next iteration awaits FallingEdge(sclk); after bit 0
\* receive awaits RisingEdge(cs_n)
MonRespNext ==
    /\ mon.pc = "resp_wait"
    /\ wake = {}
    /\ mon' = IF mon.i > 0 THEN [mon EXCEPT !.pc = "rx_resp", !.i = @ - 1]
              ELSE [mon EXCEPT !.pc = "await_cs_re"]
    /\ UNCHANGED <<trx, chip_addr, rsp, xbit, bus, gen, drv, wake, received, driven, windows,
                   tvars, cvars, mce>>

\* after RisingEdge(cs_n) closing the response frame: return the triple
MonRespEnd ==
    /\ "mon" \in wake
    /\ mon.pc = "await_cs_re"
    /\ mon' = [mon EXCEPT !.pc = "idle"]
    /\ received' = Append(received, Triple(mon))
    /\ wake' = wake \ {"mon"}
    /\ UNCHANGED <<trx, chip_addr, rsp, xbit, bus, gen, drv, driven, windows, tvars, cvars, mce>>

----------------------------------------------------------------------------
(* SpecFrame: one well-formed transaction sent and observed                 *)

WellFormedTrx ==
    [reg_name : {"-"}, reg_addr : AddrSamples, reg_data : DataSamples, wrn : {0, 1},
     reg_data_range : {"-"}, read_reg_data_expected : {None}]

\* transactions check_trx has to reject: an item left None, a direction that is
\* neither 0 nor 1, an address or data outside its field
MalformedTrx ==
    {[reg_name |-> "-", reg_addr |-> m[2], reg_data |-> m[3], wrn |-> m[1],
      reg_data_range |-> "-", read_reg_data_expected |-> None] :
        m \in {<<None, 2, 9>>, <<1, None, 9>>, <<1, 2, None>>, <<2, 2, 9>>, <<-1, 2, 9>>,
               <<1, 256, 9>>, <<0, -1, 9>>, <<1, 2, 65536>>, <<0, 2, -1>>}}

\* where a line may read undefined: a MOSI sample of the request frame, a MISO
\* sample of the response frame
XSamples == {NoX, <<"mosi", 31>>, <<"mosi", 28>>, <<"mosi", 0>>,
             <<"miso", 31>>, <<"miso", 12>>, <<"miso", 0>>}

RspSamples(ca) == [chip : {ca, (ca + 1) % 8}, data : RspDataSamples, status : {0, 1}]

InitFrame ==
    /\ trx \in WellFormedTrx \cup MalformedTrx
    /\ chip_addr \in ChipAddrSamples
    \* (an undefined sample is tried with one of the data values)
    /\ xbit \in IF trx.reg_data = 9 THEN XSamples ELSE {NoX}
    /\ rsp \in IF trx.wrn = 0 THEN RspSamples(chip_addr)
               ELSE {[chip |-> chip_addr, data |-> 0, status |-> 0]}
    /\ bus = [cs_n |-> 1, sclk |-> 0, mosi |-> X, miso |-> X]
    /\ gen = [pc |-> "off", k |-> 0, frame |-> 0]
    /\ drv = [pc |-> "idle", i |-> 0, pause |-> 0]
    /\ mon = MonInit
    /\ wake = {}
    /\ received = << >>
    /\ driven = << >>
    /\ windows = << >>
    /\ pc = "off"
    /\ seq_args = << >>
    /\ runs = 0
    /\ regs = << >>
    /\ reg_keys = << >>
    /\ got = << >>
    /\ err = "none"
    /\ hist = << >>
    /\ expected = << >>
    /\ sb = [fail_immediately |-> TRUE, errors |-> 0]
    /\ final = << >>
    /\ cov = << >>
    /\ samples = 0
    /\ updates = 0
    /\ mce = MceInit

NextFrame ==
    \/ DrvReject
    \/ DrvStart
    \/ GenStart
    \/ GenRise
    \/ GenFall
    \/ GenEnd
    \/ DrvBit
    \/ DrvBitNext
    \/ DrvRelease
    \/ DrvPauseEnd
    \/ DrvRandPause
    \/ MonStart
    \/ MonSample
    \/ MonRespStart
    \/ MonRespSample
    \/ MonRespNext
    \/ MonRespEnd

SpecFrame == InitFrame /\ [][NextFrame]_vars

TypeFrame ==
    /\ bus.mosi \in {0, 1, X}
    /\ drv.i \in 0..31
    /\ mon.i \in 0..31
    /\ Len(received) <= 1

----------------------------------------------------------------------------
(* Claims about the frame codec                                             *)

\* value of the bits lo..hi of the driven frame, bit lo being the least significant
RECURSIVE FieldValue(_, _, _)
FieldValue(d, hi, lo) ==
    IF hi < lo THEN 0
    ELSE 2 * FieldValue(d, hi, lo + 1) + d[n_sclk - lo][2]

RequestDriven == drv.pc \in {"wait_cs_re", "pause", "resp", "rpause", "done"}

\* C1 (as stated): the triple returned by receive equals the (direction, address,
\* data) of the transaction that driver_send encoded.
C1_FrameInverseAsStated ==
    received # << >> => received[1] = <<trx.wrn, trx.reg_addr, trx.reg_data>>

\* C1 (amended): for a Write the returned triple equals the transaction's
\* (wrn, reg_addr, reg_data); for a Read the direction and the address equal the
\* transaction's and the data is the register-data field of the response frame.
C1_FrameInverse ==
    received # << >> =>
        /\ received[1][1] = trx.wrn
        /\ received[1][2] = trx.reg_addr
        /\ received[1][3] = IF trx.wrn = 1 THEN trx.reg_data ELSE rsp.data

C1_Witness ==
    /\ received = << <<1, 170, 43690>> >>
    /\ chip_addr = 5

\* C2: the request frame is 32 writes of i_mosi, bit indices 31 down to 0 each
\* exactly once, whose fields are chip address [31:29], write flag [28],
\* broadcast 0 [27], register address [26:19], register data [18:3], reserved 0
\* [2:1] and stop bit 1 [0]; a read's second frame drives nothing.
C2_FrameLayout ==
    /\ Len(driven) <= n_sclk
    /\ \A k \in 1..Len(driven) : driven[k][1] = n_sclk - k /\ driven[k][2] \in {0, 1}
    /\ RequestDriven =>
        /\ Len(driven) = 32
        /\ FieldValue(driven, 31, 29) = chip_addr
        /\ FieldValue(driven, 28, 28) = trx.wrn
        /\ FieldValue(driven, 27, 27) = 0
        /\ FieldValue(driven, 26, 19) = trx.reg_addr
        /\ FieldValue(driven, 18, 3) = trx.reg_data
        /\ FieldValue(driven, 2, 1) = 0
        /\ FieldValue(driven, 0, 0) = 1

C2_Witness ==
    /\ drv.pc = "done"
    /\ chip_addr = 6
    /\ trx.wrn = 0
    /\ trx.reg_addr = 147
    /\ trx.reg_data = 21845

\* the send is over: driver_send has returned
SendOver == drv.pc = "done"

\* C16: an undefined sample of MOSI in the request frame, or of MISO in the
\* response frame of a Read, makes receive fail at that bit (unless the
\* response failed a check at an earlier bit) and no triple is delivered.
C16_UndefinedSampleFatal ==
    /\ mon.err = "undefined mosi" =>
          (xbit[1] = "mosi" /\ mon.i = xbit[2] /\ mon.pc = "failed")
    /\ mon.err = "undefined miso" =>
          (xbit[1] = "miso" /\ mon.i = xbit[2] /\ mon.pc = "failed" /\ mon.wrn = 0)
    /\ (xbit[1] = "mosi" /\ check_trx(trx)) =>
          /\ received = << >>
          /\ SendOver => mon.err = "undefined mosi"
    /\ (xbit[1] = "miso" /\ check_trx(trx) /\ trx.wrn = 0) =>
          /\ received = << >>
          /\ SendOver => /\ mon.pc = "failed"
                          /\ (mon.err = "undefined miso" \/ mon.i > xbit[2])

C16_Witness ==
    /\ SendOver
    /\ mon.err = "undefined miso"
    /\ mon.i = 12
    /\ rsp.chip = chip_addr
    /\ rsp.status = 0

\* the response of a Read carries another chip address than the request
ChipMismatch == trx.wrn = 0 /\ rsp.chip # chip_addr

\* C17: a Read whose response carries another chip address than its request
\* makes receive fail at bit 21 of the response frame and no triple is
\* delivered; with equal addresses the check does not fail.
C17_ChipAddrMismatchFatal ==
    /\ mon.err = "chip addr mismatch" =>
          (ChipMismatch /\ mon.pc = "failed" /\ mon.i = 21
           /\ mon.chip_addr_wr = chip_addr /\ mon.chip_addr_rd = rsp.chip)
    /\ (ChipMismatch /\ check_trx(trx)) =>
          /\ received = << >>
          /\ (SendOver /\ xbit[1] # "mosi") =>
                /\ mon.pc = "failed"
                /\ (mon.err = "chip addr mismatch" \/ xbit = <<"miso", 31>>)

C17_Witness ==
    /\ SendOver
    /\ mon.err = "chip addr mismatch"
    /\ chip_addr = 6
    /\ rsp.chip = 7
    /\ rsp.status = 0

\* C18: a Read whose response has the status bit set makes receive fail at
\* bit 3 and no triple is delivered; a triple of a Read is delivered only with
\* status 0.
C18_StatusNotOkFatal ==
    /\ mon.err = "read status" =>
          (trx.wrn = 0 /\ rsp.status = 1 /\ mon.pc = "failed" /\ mon.i = 3)
    /\ (trx.wrn = 0 /\ received # << >>) => rsp.status = 0
    /\ (trx.wrn = 0 /\ rsp.status = 1 /\ check_trx(trx) /\ SendOver /\ xbit[1] # "mosi") =>
          mon.pc = "failed"

C18_Witness ==
    /\ SendOver
    /\ mon.err = "read status"
    /\ rsp.chip = chip_addr
    /\ rsp.data = 40962

\* a transaction check_trx has to reject
Malformed(t) ==
    \/ t.wrn \notin {0, 1}
    \/ t.reg_addr \notin 0..(Pow2(AddrBits) - 1)
    \/ t.reg_data \notin 0..(Pow2(DataBits) - 1)

\* C19: for a malformed transaction the send is rejected and chip select,
\* clock and MOSI keep their idle values: nothing is driven, no window is
\* opened and the monitor sees nothing.
C19_MalformedRejected ==
    Malformed(trx) =>
        /\ drv.pc \in {"idle", "rejected"}
        /\ bus = [cs_n |-> 1, sclk |-> 0, mosi |-> X, miso |-> X]
        /\ gen.pc = "off"
        /\ driven = << >>
        /\ windows = << >>
        /\ received = << >>

C19_Witness ==
    /\ drv.pc = "rejected"
    /\ trx.reg_addr = 256
    /\ trx.wrn = 1

\* C21: in the request frame the driver's write of bit i precedes the
\* monitor's sample of index i, which precedes the driver's write of bit i-1:
\* whenever the monitor is about to sample index i the driver has written
\* exactly the bits 31..i, the line carries the value written for bit i (never
\* the released value; an injected undefined sample apart) and the next write
\* is still to come; whenever the driver is about to write bit i the monitor
\* has sampled exactly the indices 31..i+1.
C21_BitAligned ==
    /\ (mon.pc = "rx" /\ "mon" \in wake) =>
          /\ Len(driven) = n_sclk - mon.i
          /\ driven[Len(driven)][1] = mon.i
          /\ "drv" \notin wake
          /\ xbit[1] # "mosi" =>
                (bus.mosi \in {0, 1} /\ bus.mosi = MosiBit(mon.i, trx, chip_addr))
    /\ (drv.pc = "wait_re" /\ "drv" \in wake) =>
          /\ Len(driven) = n_sclk - 1 - drv.i
          /\ "mon" \notin wake
          /\ (mon.pc = "rx" /\ mon.i = drv.i) \/ mon.pc = "failed"
    /\ mon.pc = "rx" => Len(driven) \in {n_sclk - 1 - mon.i, n_sclk - mon.i}

C21_Witness ==
    /\ mon.pc = "rx"
    /\ "mon" \in wake
    /\ mon.i = 0
    /\ trx.reg_data = 21845
    /\ trx.reg_addr = 170
    /\ mon.reg_data_wr = 21845

\* C22: every chip-select window has 32 clock pulses; a Write has one window
\* and returns from the fixed pause that follows it; a Read has two: its second
\* window is opened from the fixed pause after the first, nothing is driven in
\* it and MOSI stays released, and the send returns from the random pause that
\* follows it, whose length lies in 10..200; a Write has no random pause.
C22_Windows ==
    /\ [](/\ \A w \in 1..Len(windows) : windows[w] = n_sclk
          /\ Len(windows) <= (IF trx.wrn = 0 THEN 2 ELSE 1)
          /\ SendOver =>
                /\ Len(windows) = (IF trx.wrn = 0 THEN 2 ELSE 1)
                /\ bus.cs_n = 1 /\ bus.mosi = X
                /\ IF trx.wrn = 0 THEN drv.pause \in 10..200 ELSE drv.pause = 0
          /\ gen.frame = 2 =>
                /\ trx.wrn = 0
                /\ bus.mosi = X
                /\ Len(driven) = n_sclk
                /\ Len(windows) = (IF gen.pc = "off" THEN 2 ELSE 1))
    /\ [][/\ (drv'.pc = "pause" /\ drv.pc # "pause") =>
               (Len(windows') = 1 /\ bus'.cs_n = 1 /\ bus'.mosi = X)
          /\ (gen'.frame = 2 /\ gen.frame # 2) => drv.pc = "pause"
          /\ (drv'.pc = "rpause" /\ drv.pc # "rpause") => Len(windows') = 2
          /\ (drv'.pc = "done" /\ drv.pc # "done") =>
               \/ (trx.wrn = 1 /\ drv.pc = "pause")
               \/ (trx.wrn = 0 /\ drv.pc = "rpause")]_vars

C22_Witness ==
    /\ SendOver
    /\ trx.wrn = 0
    /\ windows = <<32, 32>>
    /\ drv.pause = 199
    /\ bus.mosi = X

\* C29: the returned triple carries the direction (bit 28) and the address
\* (bits 26..19) of the request frame; for a Read its data is the value of the
\* bits 19..4, most significant first, of the response frame, whose bits
\* 31..26 are 0, bit 25 is 1, bits 24..22 are the chip address of the request,
\* bit 3 (status) is 0 and bits 2..0 are 0; for a Write its data is the value
\* of the bits 18..3 of the request frame.
C29_TripleFields ==
    received # << >> =>
        LET miso == [k \in 1..n_sclk |-> <<n_sclk - k, MisoBit(n_sclk - k, rsp)>>]
            g    == received[1]
        IN  /\ Len(driven) = n_sclk
            /\ g[1] = FieldValue(driven, 28, 28)
            /\ g[2] = FieldValue(driven, 26, 19)
            /\ IF g[1] = 0
               THEN /\ g[3] = FieldValue(miso, 19, 4)
                    /\ FieldValue(miso, 31, 26) = 0
                    /\ FieldValue(miso, 25, 25) = 1
                    /\ FieldValue(miso, 24, 22) = FieldValue(driven, 31, 29)
                    /\ FieldValue(miso, 3, 3) = 0
                    /\ FieldValue(miso, 2, 0) = 0
                    /\ Len(windows) = 2
               ELSE g[3] = FieldValue(driven, 18, 3)

C29_Witness ==
    /\ received = << <<0, 147, 40962>> >>
    /\ trx.reg_data = 21845
    /\ chip_addr = 5

----------------------------------------------------------------------------
(* Register map: cfg and RockTestBench.init                                 *)

CHIP_ID == 3
CHIP_ADDR == 0

\* cfg['regs'] as written in the source, in declaration order
cfg_reg_names == <<"CHIP_ID_ADDR", "res", "gamma", "psi">>

cfg_regs ==
    [CHIP_ID_ADDR |-> [addr |-> 0,   bit_width |-> 16, r_w |-> 0, max_val |-> 16383],
     res          |-> [addr |-> 2,   bit_width |-> 4,  r_w |-> 1, max_val |-> 15],
     gamma        |-> [addr |-> 4,   bit_width |-> 1,  r_w |-> 1, max_val |-> 1],
     psi          |-> [addr |-> 147, bit_width |-> 9,  r_w |-> 1, max_val |-> 511]]

\* self.cfg['reg_names'] = list(self.regs.keys())
reg_names == cfg_reg_names

RegNames == {reg_names[k] : k \in 1..Len(reg_names)}

\* self.regs[reg_name]['max_val'] = (1 << bit_width) - 1
MaxValOf(bit_width) == Pow2(bit_width) - 1

\* dict.get(key, default)
Get(r, key, default) == IF key \in DOMAIN r THEN r[key] ELSE default

\* f'ANODE_BIAS_{i}_ADDR' and f'MBIST_RES{i}_{j}_ADDR'
ArrayRegName(array_reg_name, i, j) ==
    IF array_reg_name = "ANODE_BIAS_ADDR"
    THEN <<"ANODE_BIAS_0_ADDR", "ANODE_BIAS_1_ADDR", "ANODE_BIAS_2_ADDR",
           "ANODE_BIAS_3_ADDR">>[i + 1]
    ELSE << <<"MBIST_RES0_0_ADDR", "MBIST_RES0_1_ADDR", "MBIST_RES0_2_ADDR">>,
            <<"MBIST_RES1_0_ADDR", "MBIST_RES1_1_ADDR", "MBIST_RES1_2_ADDR">> >>[i + 1][j + 1]

\* the registers that replace the array pseudo-record n: one per index for
\* ANODE_BIAS_ADDR, three per int(n_regs / 3) for MBIST_RES_ADDR
ArrayRegs(c, n) ==
    IF n = "ANODE_BIAS_ADDR"
    THEN {<<ArrayRegName(n, i, 0),
            [addr |-> c[n].addr + i, bit_width |-> c[n].bit_width, r_w |-> c[n].r_w,
             reset_reg_value |-> c[n].reset_reg_value]>> : i \in 0..(c[n].n_regs - 1)}
    ELSE {<<ArrayRegName(n, k[1], k[2]),
            [addr |-> c[n].addr + k[1] * 3 + k[2], bit_width |-> IF k[2] = 0 THEN 12 ELSE 9,
             r_w |-> c[n].r_w, reset_reg_value |-> None]>> :
                k \in (0..((c[n].n_regs \div 3) - 1)) \X (0..2)}

\* the array pseudo-records of a register map
ArrayRegNames(c) ==
    {n \in DOMAIN c : Get(c[n], "unsupported", None) = None /\ Get(c[n], "n_regs", 1) > 1}

\* the exception the loop over the arrays raises at the array n, "none" if it
\* expands it: self.regs[array_reg_name]['reset_reg_value'] of an
\* ANODE_BIAS_ADDR declared without a reset value is a KeyError, an array that
\* is neither of the two runs into assert False, "Missed array Reg"
ArrayRegError(c, n) ==
    IF n = "ANODE_BIAS_ADDR"
    THEN IF "reset_reg_value" \in DOMAIN c[n] THEN "none" ELSE "KeyError"
    ELSE IF n = "MBIST_RES_ADDR" THEN "none" ELSE "AssertionError"

\* RockTestBench.init: reset value of CHIP_ID_ADDR, unsupported registers
\* removed, array pseudo-records replaced, max_val of every register; a
\* register has no 'reg_value' and no 'run_trx' until run stores them
init(c) ==
    LET kept   == {n \in DOMAIN c : Get(c[n], "unsupported", None) = None}
        single == {<<n, [addr |-> c[n].addr, bit_width |-> c[n].bit_width, r_w |-> c[n].r_w,
                         reset_reg_value |->
                             IF n = "CHIP_ID_ADDR" THEN CHIP_ID * 16 + CHIP_ADDR
                             ELSE Get(c[n], "reset_reg_value", None)]>> :
                       n \in kept \ ArrayRegNames(c)}
        E      == single \cup UNION {ArrayRegs(c, n) : n \in ArrayRegNames(c)}
        rec(n) == (CHOOSE e \in E : e[1] = n)[2]
    IN  [n \in {e[1] : e \in E} |->
            [addr            |-> rec(n).addr,
             bit_width       |-> rec(n).bit_width,
             r_w             |-> rec(n).r_w,
             reset_reg_value |-> rec(n).reset_reg_value,
             max_val         |-> MaxValOf(rec(n).bit_width),
             reg_value       |-> None,
             run_trx         |-> << >>]]

\* self.regs['CHIP_ID_ADDR']['reset_reg_value'] = (CHIP_ID << 4) | CHIP_ADDR,
\* stored in the map in place
SetChipIdReset(c) ==
    [n \in DOMAIN c |->
        IF n = "CHIP_ID_ADDR"
        THEN [k \in DOMAIN c[n] \cup {"reset_reg_value"} |->
                 IF k = "reset_reg_value" THEN CHIP_ID * 16 + CHIP_ADDR ELSE c[n][k]]
        ELSE c[n]]

\* del self.regs[reg_name] for every register marked unsupported
RemoveUnsupported(c) ==
    [n \in {m \in DOMAIN c : Get(c[m], "unsupported", None) = None} |-> c[n]]

\* the array pseudo-records, in the order of list(self.regs.keys())
array_reg_names(c, keys) == SelectSeq(keys, LAMBDA n : n \in ArrayRegNames(c))

\* the names of the registers added for the array n, in the order they are added
ArrayRegNameSeq(c, n) ==
    IF n = "ANODE_BIAS_ADDR"
    THEN [k \in 1..c[n].n_regs |-> ArrayRegName(n, k - 1, 0)]
    ELSE [k \in 1..(3 * (c[n].n_regs \div 3)) |-> ArrayRegName(n, (k - 1) \div 3, (k - 1) % 3)]

\* the dict stored for a register of the array n: addr, bit_width, r_w and,
\* for ANODE_BIAS_ADDR only, reset_reg_value
StoredArrayRegs(c, n) ==
    {<<e[1], IF n = "ANODE_BIAS_ADDR" THEN e[2]
             ELSE [addr |-> e[2].addr, bit_width |-> e[2].bit_width, r_w |-> e[2].r_w]>> :
        e \in ArrayRegs(c, n)}

\* one iteration of the loop over array_reg_names for a known array: its
\* registers are stored under their names, at the end of the dict, and the
\* pseudo-record is deleted
ExpandArrayReg(s, n) ==
    LET E     == StoredArrayRegs(s.regs, n)
        names == {e[1] : e \in E}
        rest  == SelectSeq(s.keys, LAMBDA m : m # n)
        old   == {rest[k] : k \in 1..Len(rest)}
    IN  [regs |-> [m \in (DOMAIN s.regs \ {n}) \cup names |->
                      IF m \in names THEN (CHOOSE e \in E : e[1] = m)[2] ELSE s.regs[m]],
         keys |-> rest \o SelectSeq(ArrayRegNameSeq(s.regs, n), LAMBDA m : m \notin old),
         err  |-> s.err]

\* the loop over the arrays a, left by the exception of the first array that
\* raises one, before anything of that array is stored
RECURSIVE ExpandArrays(_, _)
ExpandArrays(s, a) ==
    IF a = << >>
    THEN s
    ELSE IF ArrayRegError(s.regs, Head(a)) # "none"
    THEN [s EXCEPT !.err = ArrayRegError(s.regs, Head(a))]
    ELSE ExpandArrays(ExpandArrayReg(s, Head(a)), Tail(a))

\* RockTestBench.init up to the end of the loop over the arrays: self.regs and
\* the order of its keys, as the dict is changed in place, and the exception
\* that ended the loop; max_val is not yet computed
InitArrays(c, keys) ==
    LET c1 == RemoveUnsupported(SetChipIdReset(c))
        k1 == SelectSeq(keys, LAMBDA n : n \in DOMAIN c1)
    IN  ExpandArrays([regs |-> c1, keys |-> k1, err |-> "none"], array_reg_names(c1, k1))

max_runs == 2

----------------------------------------------------------------------------
(* RockSpiTrx: randomize and post_randomize                                 *)

DataRanges == {"min0", "min1", "mid", "max0", "max1"}

reg_data_range_weights == [min0 |-> 1, min1 |-> 1, mid |-> 1, max0 |-> 1, max1 |-> 1]

\* mutant: the read/write flag is not tied to the register's access mode
wrn_cstr_AnyMode(rg, reg_name, wrn) == wrn \in {0, 1}

\* wrn_cstr: a read-only register can only be read
wrn_cstr(rg, reg_name, wrn) ==
    IF rg[reg_name].r_w = 0 THEN wrn = 0 ELSE wrn \in {0, 1}

\* reg_data_cstr: the weight of a data range (True counts as weight 1)
reg_data_cstr(reg_data_range, wrn) ==
    IF wrn = 1 THEN reg_data_range_weights[reg_data_range] ELSE 1

\* the constraints RockSpiTrx.__init__ registers with add_constraint
constraints == {"wrn_cstr", "reg_data_cstr"}

\* reg_name_cstr: int(reg_name not in self.covered_regs)
reg_name_cstr(covered_regs, reg_name) == IF reg_name \notin covered_regs THEN 1 ELSE 0

\* the weight randomize gives a register name: that of the registered
\* constraints on reg_name alone, 1 when there is none
NameWeight(covered_regs, reg_name) ==
    IF "reg_name_cstr" \in constraints THEN reg_name_cstr(covered_regs, reg_name) ELSE 1

\* Randomized.randomize over reg_name, wrn, reg_data_range: every assignment
\* the constraints admit
Solutions(rg) ==
    {s \in [reg_name : RegNames, wrn : {0, 1}, reg_data_range : DataRanges] :
        /\ wrn_cstr(rg, s.reg_name, s.wrn)
        /\ reg_data_cstr(s.reg_data_range, s.wrn) > 0}

\* outcomes of np.random.randint(0, max_val + 1) the model explores
MidDraws(max_val) ==
    {v \in {0, 1, 2, 9, max_val - 2, max_val - 1, max_val} : 0 <= v /\ v <= max_val}

\* mutant: the 'min1' entry is 2
RangeData_Min1Is2(reg_data_range, max_val, mid) ==
    CASE reg_data_range = "min0" -> 0
      [] reg_data_range = "min1" -> 2
      [] reg_data_range = "mid"  -> mid
      [] reg_data_range = "max0" -> max_val - 1
      [] reg_data_range = "max1" -> max_val

\* mutant: the 'max0' entry is max_val - 2
RangeData_Max0TwoBelow(reg_data_range, max_val, mid) ==
    CASE reg_data_range = "min0" -> 0
      [] reg_data_range = "min1" -> 1
      [] reg_data_range = "mid"  -> mid
      [] reg_data_range = "max0" -> max_val - 2
      [] reg_data_range = "max1" -> max_val

\* the dict of post_randomize indexed by reg_data_range
RangeData(reg_data_range, max_val, mid) ==
    CASE reg_data_range = "min0" -> 0
      [] reg_data_range = "min1" -> 1
      [] reg_data_range = "mid"  -> mid
      [] reg_data_range = "max0" -> max_val - 1
      [] reg_data_range = "max1" -> max_val

post_randomize(rg, s, mid) ==
    [reg_name               |-> s.reg_name,
     reg_addr               |-> rg[s.reg_name].addr,
     reg_data               |-> RangeData(s.reg_data_range, rg[s.reg_name].max_val, mid),
     wrn                    |-> s.wrn,
     reg_data_range         |-> s.reg_data_range,
     read_reg_data_expected |-> None]

\* Transaction.__init__: every item is None
TrxNone ==
    [reg_name |-> "-", reg_addr |-> None, reg_data |-> None, wrn |-> None,
     reg_data_range |-> "-", read_reg_data_expected |-> None]

----------------------------------------------------------------------------
(* RockTestBench: register-model prediction, reset detector, scoreboard     *)

\* regs[name].get('reg_value'), else .get('reset_reg_value', 0)
ExpectedRead(rg, n) ==
    IF rg[n].reg_value # None THEN rg[n].reg_value
    ELSE IF rg[n].reset_reg_value # None THEN rg[n].reset_reg_value
    ELSE 0

\* mutant: the written data is not stored
StoreWrite_NotStored(rg, n, data) == rg

\* mutant: a write drops the stored value of every other register
StoreWrite_ClearsOthers(rg, n, data) ==
    [m \in DOMAIN rg |-> [rg[m] EXCEPT !.reg_value = IF m = n THEN data ELSE None]]

\* self.regs[trx.reg_name]['reg_value'] = trx.reg_data
StoreWrite(rg, n, data) == [rg EXCEPT ![n].reg_value = data]

WRN == 1
RESET_REG_ADDR == 2
RESET_REG_CODE == 9

IsResetTrx(g) == g[1] = WRN /\ g[2] = RESET_REG_ADDR /\ g[3] = RESET_REG_CODE

\* catch_reset: on a reset write the first statement is self.warning(...), an
\* attribute RockTestBench and TestBench do not define; the loop deleting
\* 'reg_value' is not reached
catch_reset(g, rg) ==
    IF IsResetTrx(g)
    THEN [regs |-> rg, err |-> "AttributeError"]
    ELSE [regs |-> rg, err |-> "none"]

\* mutant: a read is compared with the data of the request
x_fn_RequestData(t) == <<t.wrn, t.reg_addr, t.reg_data>>

\* x_fn of scoreboard.add_interface
x_fn(t) == <<t.wrn, t.reg_addr, IF t.wrn = 0 THEN t.read_reg_data_expected ELSE t.reg_data>>

\* register data the device may answer a read with: the predicted value or another
ReadAnswers(t) ==
    IF t.wrn = 0
    THEN {t.read_reg_data_expected, (t.read_reg_data_expected + 1) % Pow2(DataBits)}
    ELSE {0}

\* monitor.add_expected(trx): the expectation queue gets a reference to the
\* transaction object of run number k
add_expected(q, k) == Append(q, k)

\* the scoreboard's callback for a received triple g: the oldest expectation is
\* popped and x_fn of it compared with g; a mismatch, or a triple nobody
\* expected, is counted and in fail-immediately mode raised as TestFailure
check_received(q, s, g, t) ==
    LET bad == q = << >> \/ g # x_fn(t)
    IN  [expected |-> IF q = << >> THEN q ELSE Tail(q),
         sb       |-> IF bad THEN [s EXCEPT !.errors = @ + 1] ELSE s,
         err      |-> IF bad /\ s.fail_immediately THEN "TestFailure" ELSE "none"]

\* scoreboard.result: failure if a mismatch was counted or an expectation is left
result(s, q) == IF s.errors > 0 \/ q # << >> THEN "TestFailure" ELSE "TestSuccess"

\* Monitor._recv: the callbacks run in the order they were added, catch_reset
\* (add_callback) before the scoreboard's (add_interface); an exception of the
\* first ends the delivery
recv(g, rg, q, s, t) ==
    LET r == catch_reset(g, rg)
        c == check_received(q, s, g, t)
    IN  IF r.err # "none"
        THEN [regs |-> r.regs, expected |-> q, sb |-> s, err |-> r.err]
        ELSE [regs |-> r.regs, expected |-> c.expected, sb |-> c.sb, err |-> c.err]

\* the entry of hist for transaction t delivered as g
Sent(t, g) ==
    [reg_name |-> t.reg_name, wrn |-> t.wrn, reg_addr |-> t.reg_addr,
     reg_data |-> t.reg_data, expected |-> t.read_reg_data_expected,
     got |-> g, reset |-> IsResetTrx(g)]

----------------------------------------------------------------------------
(* Coverage: RockSpiCoverProcessor.define, CoverPoint and CoverCross        *)

reg_data_bins == <<"min0", "min1", "max0", "max1", "mid">>
rw_bins == <<0, 1>>

\* the wildcard None of an ign_bins entry, in a position holding names
AnyBin == "None"

ign_bins == {<<"CHIP_ID_ADDR", 1, AnyBin>>, <<"CHIP_VERSION_ADDR", 1, AnyBin>>,
             <<"SPI_STATUS_ADDR", 1, AnyBin>>}

\* at_least of the cover items declared by define (none is given)
at_least_default == 1

SeqToSet(q) == {q[k] : k \in 1..Len(q)}

\* rel_reg_data: is the data of the transaction in the bin
rel_reg_data(rg, t, bin) ==
    LET max_val == rg[t.reg_name].max_val
        check_value == IF t.wrn = 1 THEN t.reg_data ELSE t.read_reg_data_expected
    IN  CASE bin = "min0" -> check_value = 0
          [] bin = "min1" -> check_value = 1
          [] bin = "max0" -> check_value = max_val
          [] bin = "max1" -> check_value = max_val - 1
          [] bin = "mid"  -> IF max_val < 4
                             THEN 0 <= check_value /\ check_value <= max_val
                             ELSE 2 <= check_value /\ check_value <= max_val - 2
          [] OTHER        -> FALSE

\* a cover point before any sample
CpInit(bins, at_least) ==
    [hits |-> [b \in SeqToSet(bins) |-> 0], new |-> << >>, covered |-> << >>,
     at_least |-> at_least]

\* CoverPoint sampling (inj=False): every bin the relation accepts is hit
\* (hit: the set of bins whose relation holds for the sampled transaction)
CpSample(c, bins, hit) ==
    LET Hit(b) == b \in hit
    IN  [c EXCEPT !.hits = [b \in DOMAIN c.hits |-> IF Hit(b) THEN c.hits[b] + 1 ELSE c.hits[b]],
                  !.new  = SelectSeq(bins, Hit)]

\* mutant: a bin is appended at every hit from at_least on
CpUpdateCoveredBins_EveryHit(c) ==
    LET Reached(h) == c.hits[h] >= c.at_least
    IN  [c EXCEPT !.covered = @ \o SelectSeq(c.new, Reached)]

\* mutant: the list is rebuilt from the new hits instead of extended
CpUpdateCoveredBins_Overwrite(c) ==
    LET Reached(h) == c.hits[h] = c.at_least
    IN  [c EXCEPT !.covered = SelectSeq(c.new, Reached)]

\* CoverPoint.update_covered_bins
CpUpdateCoveredBins(c) ==
    LET Reached(h) == c.hits[h] = c.at_least
    IN  [c EXCEPT !.covered = @ \o SelectSeq(c.new, Reached)]

\* is the joint bin x removed by an ign_bins entry
Ignored(x) ==
    \E ig \in ign_bins :
        /\ ig[1] = AnyBin \/ ig[1] = x[1]
        /\ ig[2] = None \/ ig[2] = x[2]
        /\ ig[3] = AnyBin \/ ig[3] = x[3]

\* the keys of CoverCross.detailed_coverage: the product of the bins, less the ignored
CrossBins ==
    {x \in SeqToSet(reg_names) \X SeqToSet(rw_bins) \X SeqToSet(reg_data_bins) : ~Ignored(x)}

\* mutant: every bin is given one descendant too many
BinCntInit_OffByOne(xbins, i) ==
    [b \in {x[i] : x \in xbins} |-> Cardinality({x \in xbins : x[i] = b}) + 1]

\* CoverCross.__init__: for every bin of dimension i the number of joint bins holding it
BinCntInit(xbins, i) ==
    [b \in {x[i] : x \in xbins} |-> Cardinality({x \in xbins : x[i] = b})]

CrossInit(at_least) ==
    [hits     |-> [x \in CrossBins |-> 0],
     new      |-> << >>,
     at_least |-> at_least,
     bin_cnt  |-> [reg_name |-> BinCntInit(CrossBins, 1),
                   rw       |-> BinCntInit(CrossBins, 2),
                   reg_data |-> BinCntInit(CrossBins, 3)],
     covered  |-> [reg_name |-> << >>, rw |-> << >>, reg_data |-> << >>]]

\* itertools.product of the three new_hits lists, in its order
RECURSIVE Product3(_, _, _)
Product3(a, b, c) ==
    IF a = << >> THEN << >>
    ELSE LET row(bb) == [k \in 1..Len(c) |-> <<a[1], bb, c[k]>>]
             RECURSIVE rows(_)
             rows(bs) == IF bs = << >> THEN << >> ELSE row(bs[1]) \o rows(Tail(bs))
         IN  rows(b) \o Product3(Tail(a), b, c)

\* CoverCross sampling: every joint bin of the product that is a key is hit
CrossSample(x, new_rn, new_rw, new_rd) ==
    LET InKeys(h) == h \in DOMAIN x.hits
        new == SelectSeq(Product3(new_rn, new_rw, new_rd), InKeys)
    IN  [x EXCEPT !.hits = [h \in DOMAIN x.hits |->
                                IF h \in SeqToSet(new) THEN x.hits[h] + 1 ELSE x.hits[h]],
                  !.new  = new]

\* mutant: the descendant counts are decremented at every hit of a joint bin
CrossReached_EveryHit(x, hit) == x.hits[hit] >= x.at_least

\* if self.detailed_coverage[hit] == self._at_least
CrossReached(x, hit) == x.hits[hit] = x.at_least

\* mutant: a bin is recorded whenever one of its joint bins reaches at_least
CrossCountHit_NoZeroCheck(x, hit) ==
    IF ~CrossReached(x, hit) THEN x
    ELSE [x EXCEPT
            !.bin_cnt.reg_name[hit[1]] = @ - 1,
            !.bin_cnt.rw[hit[2]]       = @ - 1,
            !.bin_cnt.reg_data[hit[3]] = @ - 1,
            !.covered.reg_name = Append(@, hit[1]),
            !.covered.rw       = Append(@, hit[2]),
            !.covered.reg_data = Append(@, hit[3])]

\* the body of the loop of CoverCross.update_covered_bins for one new hit
CrossCountHit(x, hit) ==
    IF ~CrossReached(x, hit) THEN x
    ELSE [x EXCEPT
            !.bin_cnt.reg_name[hit[1]] = @ - 1,
            !.bin_cnt.rw[hit[2]]       = @ - 1,
            !.bin_cnt.reg_data[hit[3]] = @ - 1,
            !.covered.reg_name = IF x.bin_cnt.reg_name[hit[1]] - 1 = 0
                                 THEN Append(@, hit[1]) ELSE @,
            !.covered.rw       = IF x.bin_cnt.rw[hit[2]] - 1 = 0
                                 THEN Append(@, hit[2]) ELSE @,
            !.covered.reg_data = IF x.bin_cnt.reg_data[hit[3]] - 1 = 0
                                 THEN Append(@, hit[3]) ELSE @]

\* CoverCross.update_covered_bins: for hit in self.new_hits
RECURSIVE CrossUpdateFrom(_, _)
CrossUpdateFrom(x, hs) ==
    IF hs = << >> THEN x ELSE CrossUpdateFrom(CrossCountHit(x, hs[1]), Tail(hs))

CrossUpdateCoveredBins(x) == CrossUpdateFrom(x, x.new)

\* CoverItem.cover_percentage of the cross: 100 * coverage / size
cover_percentage(x) ==
    LET size == Cardinality(DOMAIN x.hits)
        coverage == size - Cardinality({h \in DOMAIN x.hits : x.hits[h] < x.at_least})
    IN  (100 * coverage) \div size

CovInit(at_least) ==
    [reg_name |-> CpInit(reg_names, at_least),
     rw       |-> CpInit(rw_bins, at_least),
     reg_data |-> CpInit(reg_data_bins, at_least),
     cross    |-> CrossInit(at_least)]

\* CoverProcessor.collect: the cover items sample in declaration order, then
\* each wrapper runs its update_covered_bins on the way back
collect(c, rg, t) ==
    LET HitName == {b \in SeqToSet(reg_names) : t.reg_name = b}
        HitRw   == {b \in SeqToSet(rw_bins) : t.wrn = b}
        HitData == {b \in SeqToSet(reg_data_bins) : rel_reg_data(rg, t, b)}
        rn == CpSample(c.reg_name, reg_names, HitName)
        rw == CpSample(c.rw, rw_bins, HitRw)
        rd == CpSample(c.reg_data, reg_data_bins, HitData)
        x  == CrossSample(c.cross, rn.new, rw.new, rd.new)
    IN  [reg_name |-> CpUpdateCoveredBins(rn),
         rw       |-> CpUpdateCoveredBins(rw),
         reg_data |-> CpUpdateCoveredBins(rd),
         cross    |-> CrossUpdateCoveredBins(x)]

\* RockTestBench.stop
stop == runs >= max_runs \/ cover_percentage(cov.cross) = 100

----------------------------------------------------------------------------
(* TestBench.sequencer and RockTestBench.run                                *)

\* test_goal_achieved: the condition of the sequencer's while loop
test_goal_achieved == runs >= max_runs

\* cocotb.start_soon(self.emulate_mce_frame(self.dut)), then
\* for trx in self.sequencer(RockSpiTrx, self.stop, self.cfg): the generator
\* first runs trx = Trx(*args); RockSpiTrx.__init__ asserts len(args) == 1
RunStart ==
    /\ pc = "start"
    /\ mce' = [mce EXCEPT !.pc = "wait"]
    /\ IF Len(seq_args) = 1
       THEN pc' = "loop" /\ UNCHANGED err
       ELSE pc' = "aborted" /\ err' = "AssertionError"
    /\ UNCHANGED <<trx, fvars, seq_args, reg_keys, runs, regs, got, hist, svars, cvars>>

\* mutant: the loop is left one transaction before the goal
SeqNext_StopsEarly ==
    /\ pc = "loop"
    /\ IF runs >= max_runs - 1
       THEN pc' = "done" /\ UNCHANGED trx
       ELSE /\ \E s \in Solutions(regs) :
                 \E mid \in MidDraws(regs[s.reg_name].max_val) :
                     trx' = post_randomize(regs, s, mid)
            /\ pc' = "body"
    /\ UNCHANGED <<fvars, seq_args, reg_keys, runs, regs, got, err, hist, svars, cvars, mce>>

\* while not test_goal_achieved(): trx.randomize(); yield trx
SeqNext ==
    /\ pc = "loop"
    /\ IF test_goal_achieved
       THEN pc' = "done" /\ UNCHANGED trx
       ELSE /\ \E s \in Solutions(regs) :
                 \E mid \in MidDraws(regs[s.reg_name].max_val) :
                     trx' = post_randomize(regs, s, mid)
            /\ pc' = "body"
    /\ UNCHANGED <<fvars, seq_args, reg_keys, runs, regs, got, err, hist, svars, cvars, mce>>

\* the loop body of run up to the await of driver.send
RunBody ==
    /\ pc = "body"
    /\ LET n == trx.reg_name
           logged == [regs EXCEPT ![n].run_trx = Append(@, trx.wrn)]
       IN  IF trx.wrn = 0
           THEN /\ trx' = [trx EXCEPT !.read_reg_data_expected = ExpectedRead(regs, n)]
                /\ regs' = logged
           ELSE /\ regs' = StoreWrite(logged, n, trx.reg_data)
                /\ UNCHANGED trx
    /\ expected' = add_expected(expected, runs)
    /\ pc' = "send"
    /\ UNCHANGED <<fvars, seq_args, reg_keys, runs, got, err, hist, sb, final, cvars, mce>>

\* mutant: the sequencer counts every transaction twice
Collect_CountsTwice ==
    /\ pc = "collect"
    /\ cov' = collect(cov, regs, trx)
    /\ samples' = samples + 1
    /\ runs' = runs + 2
    /\ pc' = "loop"
    /\ UNCHANGED <<trx, fvars, seq_args, reg_keys, regs, got, err, hist, svars, updates, mce>>

\* self.coverage.collect(trx), then the sequencer resumes: self.runs += 1
Collect ==
    /\ pc = "collect"
    /\ cov' = collect(cov, regs, trx)
    /\ samples' = samples + 1
    /\ runs' = runs + 1
    /\ pc' = "loop"
    /\ UNCHANGED <<trx, fvars, seq_args, reg_keys, regs, got, err, hist, svars, updates, mce>>

\* RockTestBench(dut): TestBench.__init__ runs init(); then the agent, the
\* scoreboard and the cover items are built. With BusAgent and Scoreboard of
\* src/cocotb_util the construction raises (BusAgent defines no add_driver) and
\* no bench exists; with the classes rock_spi.py was written for it is built
Init ==
    /\ trx = TrxNone
    /\ chip_addr = 0
    /\ rsp = [chip |-> 0, data |-> 0, status |-> 0]
    /\ xbit = NoX
    /\ bus = [cs_n |-> 1, sclk |-> 0, mosi |-> X, miso |-> X]
    /\ gen = [pc |-> "off", k |-> 0, frame |-> 0]
    /\ drv = [pc |-> "idle", i |-> 0, pause |-> 0]
    /\ mon = MonInit
    /\ wake = {}
    /\ received = << >>
    /\ driven = << >>
    /\ windows = << >>
    /\ seq_args \in {<<"stop", "cfg">>, <<"cfg">>}
    /\ runs = 0
    /\ regs = init(cfg_regs)
    /\ reg_keys = cfg_reg_names
    /\ got = << >>
    /\ hist = << >>
    /\ expected = << >>
    /\ sb = [fail_immediately |-> TRUE, errors |-> 0]
    /\ final = << >>
    /\ samples = 0
    /\ updates = 0
    /\ mce = MceInit
    /\ \/ pc = "start" /\ err = "none" /\ cov = CovInit(at_least_default)
       \/ pc = "unbuilt" /\ err = "AttributeError" /\ cov = << >>

----------------------------------------------------------------------------
(* Claims about the generator and the register model                        *)

Generated == pc \in {"body", "send", "sending", "collect"}

TrxMaxVal == regs[trx.reg_name].max_val

\* C3: no generated transaction is a Write of a read-only register (r_w == 0
\* forces wrn == 0), for the transaction just generated and all sent before it.
C3_ReadOnlyNeverWritten ==
    /\ Generated => (regs[trx.reg_name].r_w = 0 => trx.wrn = 0)
    /\ \A k \in 1..Len(hist) : regs[hist[k].reg_name].r_w = 0 => hist[k].wrn = 0

C3_Witness ==
    /\ pc = "body"
    /\ Len(hist) = 1
    /\ hist[1].reg_name = "CHIP_ID_ADDR"
    /\ trx.reg_name = "CHIP_ID_ADDR"
    /\ trx.wrn = 0

\* C4: a Read of a register whose latest earlier access-changing event is a Write
\* (no reset and no other write to it in between) is given that Write's data as
\* read_reg_data_expected, and the value lies in [0, max_val] of the register.
C4_RoundTrip ==
    \A n \in 1..Len(hist) : \A j \in 1..(n - 1) :
        ( /\ hist[n].wrn = 0
          /\ hist[j].wrn = 1
          /\ hist[j].reg_name = hist[n].reg_name
          /\ \A k \in j..(n - 1) : ~hist[k].reset
          /\ \A k \in (j + 1)..(n - 1) :
                ~(hist[k].wrn = 1 /\ hist[k].reg_name = hist[n].reg_name) )
        => /\ hist[n].expected = hist[j].reg_data
           /\ 0 <= hist[n].expected
           /\ hist[n].expected <= regs[hist[n].reg_name].max_val

C4_Witness ==
    /\ Len(hist) = 2
    /\ hist[1].wrn = 1 /\ hist[1].reg_name = "psi" /\ hist[1].reg_data = 510
    /\ hist[2].wrn = 0 /\ hist[2].reg_name = "psi"
    /\ pc = "collect"

ResetReported == Len(hist) > 0 /\ hist[Len(hist)].reset

\* C5: once the monitor has reported the reset write (Write, address 2, data 9)
\* no register holds a last written value and no error was raised.
C5_ResetClearsAll ==
    ResetReported =>
        /\ \A n \in RegNames : regs[n].reg_value = None
        /\ err = "none"

\* C6: data follows the data-range class as min0 -> 0, min1 -> 1,
\* max0 -> max_val, max1 -> max_val - 1 of the chosen register.
C6_DataRangeMapping ==
    Generated =>
        /\ trx.reg_data_range = "min0" => trx.reg_data = 0
        /\ trx.reg_data_range = "min1" => trx.reg_data = 1
        /\ trx.reg_data_range = "max0" => trx.reg_data = TrxMaxVal
        /\ trx.reg_data_range = "max1" => trx.reg_data = TrxMaxVal - 1

\* C7: a 'mid' transaction carries a value of [0, max_val] when max_val < 4 and of
\* [2, max_val - 2] otherwise.
C7_MidRange ==
    (Generated /\ trx.reg_data_range = "mid") =>
        IF TrxMaxVal < 4
        THEN 0 <= trx.reg_data /\ trx.reg_data <= TrxMaxVal
        ELSE 2 <= trx.reg_data /\ trx.reg_data <= TrxMaxVal - 2

\* C8: for every register and every data-range class the derived data lies in
\* [0, max_val], and a max1 value of max_val - 1 occurs only when max_val >= 1.
C8_DataInRange ==
    Generated =>
        /\ 0 <= trx.reg_data
        /\ trx.reg_data <= TrxMaxVal
        /\ (trx.reg_data_range = "max1" /\ trx.reg_data = TrxMaxVal - 1) => TrxMaxVal >= 1

C8_Witness ==
    /\ pc = "body"
    /\ trx.reg_name = "gamma"
    /\ trx.reg_data_range = "min1"
    /\ trx.reg_data = regs["gamma"].max_val

----------------------------------------------------------------------------
(* SpecCover: the cover items sampled with transactions as run presents     *)
(* them, and their public update_covered_bins called outside a sample       *)

\* calls made on the cover items in a run: samples, and in SpecCover the calls
\* of update_covered_bins made outside a sample
MaxSamples == 4

\* calls of update_covered_bins made outside a sample in a run of SpecCover
MaxUpdates == 2

\* the cover points of define, by the field of cov that holds them
CoverPointNames == {"reg_name", "rw", "reg_data"}

\* at_least of the cover items of a run of SpecCover
AtLeastSamples == {1, 2}

\* data a Write of register n can carry
WriteValues(rg, n) ==
    {RangeData(r, rg[n].max_val, m) : r \in DataRanges, m \in MidDraws(rg[n].max_val)}

\* the values sampled per register: written data, and expected read data
CoverWrites == [CHIP_ID_ADDR |-> {}, res |-> {9, 15}, gamma |-> {0, 1}, psi |-> {0}]
CoverReads  == [CHIP_ID_ADDR |-> {48}, res |-> {14}, gamma |-> {0, 1}, psi |-> {511}]

\* the transactions collect is called with: a Write the generator can produce,
\* or a Read whose expected value is one the register model can hold
CoverInputs(rg) ==
    UNION {{[reg_name |-> n, reg_addr |-> rg[n].addr, reg_data |-> 0, wrn |-> 0,
             reg_data_range |-> "min0", read_reg_data_expected |-> e] :
              e \in CoverReads[n] \cap
                    ({ExpectedRead(rg, n)} \cup
                     (IF rg[n].r_w = 1 THEN WriteValues(rg, n) ELSE {}))} : n \in RegNames}
    \cup
    UNION {{[reg_name |-> n, reg_addr |-> rg[n].addr, reg_data |-> d, wrn |-> 1,
             reg_data_range |-> "mid", read_reg_data_expected |-> None] :
              d \in CoverWrites[n] \cap WriteValues(rg, n)} :
                 n \in {m \in RegNames : rg[m].r_w = 1}}

InitCover ==
    /\ trx = TrxNone
    /\ chip_addr = 0
    /\ rsp = [chip |-> 0, data |-> 0, status |-> 0]
    /\ xbit = NoX
    /\ bus = [cs_n |-> 1, sclk |-> 0, mosi |-> X, miso |-> X]
    /\ gen = [pc |-> "off", k |-> 0, frame |-> 0]
    /\ drv = [pc |-> "idle", i |-> 0, pause |-> 0]
    /\ mon = MonInit
    /\ wake = {}
    /\ received = << >>
    /\ driven = << >>
    /\ windows = << >>
    /\ pc = "cover"
    /\ seq_args = <<"cfg">>
    /\ runs = 0
    /\ regs = init(cfg_regs)
    /\ reg_keys = cfg_reg_names
    /\ got = << >>
    /\ err = "none"
    /\ hist = << >>
    /\ expected = << >>
    /\ sb = [fail_immediately |-> TRUE, errors |-> 0]
    /\ final = << >>
    /\ \E al \in AtLeastSamples : cov = CovInit(al)
    /\ samples = 0
    /\ updates = 0
    /\ mce = MceInit

CoverSample ==
    /\ pc = "cover"
    /\ samples + updates < MaxSamples
    /\ \E t \in CoverInputs(regs) : cov' = collect(cov, regs, t)
    /\ samples' = samples + 1
    /\ UNCHANGED <<trx, fvars, tvars, updates, mce>>

\* coverage_db[name].update_covered_bins() for a cover item of define
CoverItemUpdate(name) ==
    IF name = "cross"
    THEN cov' = [cov EXCEPT !.cross = CrossUpdateCoveredBins(@)]
    ELSE cov' = [cov EXCEPT ![name] = CpUpdateCoveredBins(@)]

\* a call of the public CoverPoint.update_covered_bins made outside a sample:
\* new_hits is what the last sample left
CoverPointUpdate ==
    /\ pc = "cover"
    /\ samples + updates < MaxSamples
    /\ updates < MaxUpdates
    /\ \E name \in CoverPointNames : CoverItemUpdate(name)
    /\ updates' = updates + 1
    /\ UNCHANGED <<trx, fvars, tvars, samples, mce>>

\* a call of the public CoverCross.update_covered_bins made outside a sample
CoverCrossUpdate ==
    /\ pc = "cover"
    /\ samples + updates < MaxSamples
    /\ updates < MaxUpdates
    /\ CoverItemUpdate("cross")
    /\ updates' = updates + 1
    /\ UNCHANGED <<trx, fvars, tvars, samples, mce>>

NextCover ==
    \/ CoverSample
    \/ CoverPointUpdate
    \/ CoverCrossUpdate

SpecCover == InitCover /\ [][NextCover]_vars

----------------------------------------------------------------------------
(* SpecProcessor: the cover items sampled under CoverProcessor of           *)
(* cocotb_cover.py, whose _post_process keeps the covered lists itself      *)

\* the body of the loop over new_hits of the CoverCross branch for one hit:
\* the counts are decremented; the test compares the dict bin_cnt with 0,
\* which is never true, so nothing is appended
CoverProcessorCountHit(x, hit) ==
    IF ~CrossReached(x, hit) THEN x
    ELSE [x EXCEPT
            !.bin_cnt.reg_name[hit[1]] = @ - 1,
            !.bin_cnt.rw[hit[2]]       = @ - 1,
            !.bin_cnt.reg_data[hit[3]] = @ - 1]

\* for hit in cov_item.new_hits
RECURSIVE CoverProcessorUpdateFrom(_, _)
CoverProcessorUpdateFrom(x, hs) ==
    IF hs = << >> THEN x
    ELSE CoverProcessorUpdateFrom(CoverProcessorCountHit(x, hs[1]), Tail(hs))

\* CoverProcessor._update_covered_bins over the sampled cover items c: the
\* CoverPoint branch, and the CoverCross branch (its counts, built at the
\* first call from the keys of detailed_coverage, are those of CrossInit)
update_covered_bins(c) ==
    [reg_name |-> CpUpdateCoveredBins(c.reg_name),
     rw       |-> CpUpdateCoveredBins(c.rw),
     reg_data |-> CpUpdateCoveredBins(c.reg_data),
     cross    |-> CoverProcessorUpdateFrom(c.cross, c.cross.new)]

InitProcessor ==
    /\ trx = TrxNone
    /\ chip_addr = 0
    /\ rsp = [chip |-> 0, data |-> 0, status |-> 0]
    /\ xbit = NoX
    /\ bus = [cs_n |-> 1, sclk |-> 0, mosi |-> X, miso |-> X]
    /\ gen = [pc |-> "off", k |-> 0, frame |-> 0]
    /\ drv = [pc |-> "idle", i |-> 0, pause |-> 0]
    /\ mon = MonInit
    /\ wake = {}
    /\ received = << >>
    /\ driven = << >>
    /\ windows = << >>
    /\ pc = "processor"
    /\ seq_args = <<"cfg">>
    /\ runs = 0
    /\ regs = init(cfg_regs)
    /\ reg_keys = cfg_reg_names
    /\ got = << >>
    /\ err = "none"
    /\ hist = << >>
    /\ expected = << >>
    /\ sb = [fail_immediately |-> TRUE, errors |-> 0]
    /\ final = << >>
    /\ \E al \in AtLeastSamples : cov = CovInit(al)
    /\ samples = 0
    /\ updates = 0
    /\ mce = MceInit

\* a call of the decorated sampling function: the cover items sample, then
\* _post_process runs _update_covered_bins
ProcessorSample ==
    /\ pc = "processor"
    /\ samples < MaxSamples
    /\ \E t \in CoverInputs(regs) :
          LET HitName == {b \in SeqToSet(reg_names) : t.reg_name = b}
              HitRw   == {b \in SeqToSet(rw_bins) : t.wrn = b}
              HitData == {b \in SeqToSet(reg_data_bins) : rel_reg_data(regs, t, b)}
              rn == CpSample(cov.reg_name, reg_names, HitName)
              rw == CpSample(cov.rw, rw_bins, HitRw)
              rd == CpSample(cov.reg_data, reg_data_bins, HitData)
              x  == CrossSample(cov.cross, rn.new, rw.new, rd.new)
          IN  cov' = update_covered_bins([reg_name |-> rn, rw |-> rw,
                                          reg_data |-> rd, cross |-> x])
    /\ samples' = samples + 1
    /\ UNCHANGED <<trx, fvars, tvars, updates, mce>>

SpecProcessor == InitProcessor /\ [][ProcessorSample]_vars

----------------------------------------------------------------------------
(* SpecInit: RockTestBench.init applied to a register map                   *)

\* register maps init is applied to: the map of the source, alone or with an
\* ANODE_BIAS_ADDR array (with a reset value or, as the registers of the
\* source, without; at addresses apart from or overlapping those of the other
\* array), an MBIST_RES_ADDR array, an array of another name and an array
\* marked unsupported
CfgSamples ==
    {cfg_regs @@ a @@ m @@ t @@ u :
        a \in {<< >>} \cup
              {"ANODE_BIAS_ADDR" :> r :
                  r \in [addr : {10, 38}, n_regs : {2, 3, 4}, bit_width : {8, 10},
                         r_w : {0, 1}, reset_reg_value : {0, 5}]} \cup
              {"ANODE_BIAS_ADDR" :> r :
                  r \in [addr : {10, 38}, n_regs : {2, 4}, bit_width : {8}, r_w : {0, 1}]},
        m \in {<< >>} \cup
              {"MBIST_RES_ADDR" :> r :
                  r \in [addr : {40, 50}, n_regs : {2, 3, 4, 6}, bit_width : {12},
                         r_w : {0, 1}]},
        t \in {<< >>, "TAU_ADDR" :> [addr |-> 60, n_regs |-> 2, bit_width |-> 5, r_w |-> 1]},
        u \in {<< >>, "OLD_ADDR" :> [addr |-> 7, n_regs |-> 2, bit_width |-> 3, r_w |-> 1,
                                     unsupported |-> 1]}}

\* sequences of the elements of s without repetition
Perms(s) ==
    {q \in [1..Cardinality(s) -> s] : \A i, j \in 1..Cardinality(s) : q[i] = q[j] => i = j}

\* key orders of a register map: the registers of the source followed by the
\* arrays in any order, or the arrays in any order followed by the registers
\* of the source
KeyOrders(c) ==
    UNION {{cfg_reg_names \o q, q \o cfg_reg_names} : q \in Perms(DOMAIN c \ RegNames)}

InitCfg ==
    /\ trx = TrxNone
    /\ chip_addr = 0
    /\ rsp = [chip |-> 0, data |-> 0, status |-> 0]
    /\ xbit = NoX
    /\ bus = [cs_n |-> 1, sclk |-> 0, mosi |-> X, miso |-> X]
    /\ gen = [pc |-> "off", k |-> 0, frame |-> 0]
    /\ drv = [pc |-> "idle", i |-> 0, pause |-> 0]
    /\ mon = MonInit
    /\ wake = {}
    /\ received = << >>
    /\ driven = << >>
    /\ windows = << >>
    /\ pc = "init"
    /\ seq_args = << >>
    /\ runs = 0
    /\ regs \in CfgSamples
    /\ reg_keys \in KeyOrders(regs)
    /\ got = << >>
    /\ err = "none"
    /\ hist = << >>
    /\ expected = << >>
    /\ sb = [fail_immediately |-> TRUE, errors |-> 0]
    /\ final = << >>
    /\ cov = << >>
    /\ samples = 0
    /\ updates = 0
    /\ mce = MceInit

\* TestBench.__init__: self.init(). The exception of the loop over the arrays
\* (the assert on an array of another name, the KeyError of an ANODE_BIAS_ADDR
\* without a reset value) is reached with the map already changed in place:
\* the reset value of CHIP_ID_ADDR stored, the unsupported registers removed
\* and the arrays that come before the failing one expanded
RunInit ==
    /\ pc = "init"
    /\ LET s == InitArrays(regs, reg_keys)
       IN  /\ reg_keys' = s.keys
           /\ IF s.err # "none"
              THEN pc' = "aborted" /\ err' = s.err /\ regs' = s.regs
              ELSE pc' = "inited" /\ regs' = init(regs) /\ UNCHANGED err
    /\ UNCHANGED <<trx, fvars, seq_args, runs, got, hist, svars, cvars, mce>>

SpecInit == InitCfg /\ [][RunInit]_vars

----------------------------------------------------------------------------
(* SpecGen: RockSpiTrx constructed with a list of covered registers and     *)
(* randomized again and again                                               *)

InitGen ==
    /\ trx = TrxNone
    /\ chip_addr = 0
    /\ rsp = [chip |-> 0, data |-> 0, status |-> 0]
    /\ xbit = NoX
    /\ bus = [cs_n |-> 1, sclk |-> 0, mosi |-> X, miso |-> X]
    /\ gen = [pc |-> "off", k |-> 0, frame |-> 0]
    /\ drv = [pc |-> "idle", i |-> 0, pause |-> 0]
    /\ mon = MonInit
    /\ wake = {}
    /\ received = << >>
    /\ driven = << >>
    /\ windows = << >>
    /\ pc = "gen"
    /\ seq_args \in {<<[covered_regs |-> c]>> : c \in SUBSET RegNames}
    /\ runs = 0
    /\ regs = init(cfg_regs)
    /\ reg_keys = cfg_reg_names
    /\ got = << >>
    /\ err = "none"
    /\ hist = << >>
    /\ expected = << >>
    /\ sb = [fail_immediately |-> TRUE, errors |-> 0]
    /\ final = << >>
    /\ cov = CovInit(at_least_default)
    /\ samples = 0
    /\ updates = 0
    /\ mce = MceInit

\* trx.randomize(): a solution of the constraints whose register name has a
\* positive weight, then post_randomize
Randomize ==
    /\ pc = "gen"
    /\ \E s \in Solutions(regs) :
          /\ NameWeight(seq_args[1].covered_regs, s.reg_name) > 0
          /\ \E mid \in MidDraws(regs[s.reg_name].max_val) :
                trx' = post_randomize(regs, s, mid)
    /\ UNCHANGED <<fvars, tvars, cvars, mce>>

SpecGen == InitGen /\ [][Randomize]_vars

\* C23: a register name of the covered list has a lower selection weight than
\* one outside it and is not excluded (its weight is positive).
C23_SoftWeighting ==
    LET covered_regs == seq_args[1].covered_regs
    IN  /\ \A c \in covered_regs : NameWeight(covered_regs, c) > 0
        /\ \A c \in covered_regs : \A u \in RegNames \ covered_regs :
              NameWeight(covered_regs, c) < NameWeight(covered_regs, u)

----------------------------------------------------------------------------
(* SpecRun: run_tb with the frames of every transaction driven and observed *)
(* bit by bit, the monitor's callbacks and the scoreboard                    *)

\* a triple returned by receive and not yet handed to the callbacks
Pending == Len(received) > Len(hist)

\* what the device answers the transaction with
RunRsp(t, ca) ==
    IF t.wrn = 0
    THEN [chip : {ca, (ca + 1) % 8}, data : ReadAnswers(t), status : {0, 1}]
    ELSE {[chip |-> ca, data |-> 0, status |-> 0]}

\* await self.agent.driver.send(trx): Driver.send awaits _driver_send, whose
\* check_trx raises on a malformed transaction
SendCall ==
    /\ pc = "send"
    /\ IF check_trx(trx)
       THEN /\ pc' = "sending"
            /\ rsp' \in RunRsp(trx, chip_addr)
            /\ driven' = << >>
            /\ UNCHANGED err
       ELSE /\ pc' = "aborted"
            /\ err' = "AssertionError"
            /\ UNCHANGED <<rsp, driven>>
    /\ UNCHANGED <<trx, chip_addr, xbit, bus, gen, drv, mon, wake, received, windows,
                   seq_args, reg_keys, runs, regs, got, hist, svars, cvars, mce>>

\* Monitor._recv hands the returned triple to the callbacks, in the coroutine
\* of the monitor and before anything else runs
Deliver ==
    /\ Pending
    /\ LET g == received[Len(received)]
           r == recv(g, regs, expected, sb, trx)
       IN  /\ got' = g
           /\ hist' = Append(hist, Sent(trx, g))
           /\ regs' = r.regs
           /\ expected' = r.expected
           /\ sb' = r.sb
           /\ IF r.err # "none"
              THEN pc' = "aborted" /\ err' = r.err
              ELSE UNCHANGED <<pc, err>>
    /\ UNCHANGED <<trx, fvars, seq_args, reg_keys, runs, final, cvars, mce>>

\* an assert of receive failed: the exception of the monitor ends the test
MonitorFailed ==
    /\ mon.pc = "failed"
    /\ pc' = "aborted"
    /\ err' = "AssertionError"
    /\ UNCHANGED <<trx, fvars, seq_args, reg_keys, runs, regs, got, hist, svars, cvars, mce>>

\* mutant: the send is started and not awaited
SendReturn_NotAwaited ==
    /\ pc = "sending"
    /\ drv.pc = "wait_cs_re"
    /\ pc' = "collect"
    /\ UNCHANGED <<trx, fvars, seq_args, reg_keys, runs, regs, got, err, hist, svars, cvars, mce>>

\* driver_send has returned: run goes on after the await
SendReturn ==
    /\ pc = "sending"
    /\ drv.pc = "done"
    /\ wake = {}
    /\ ~Pending
    /\ drv' = [pc |-> "idle", i |-> 0, pause |-> 0]
    /\ pc' = "collect"
    /\ UNCHANGED <<trx, chip_addr, rsp, xbit, bus, gen, mon, wake, received, driven, windows,
                   seq_args, reg_keys, runs, regs, got, err, hist, svars, cvars, mce>>

\* mutant: run_tb does not await self.run(): the report is made at the head
\* of the loop
RunTbReport_RunNotAwaited ==
    /\ pc = "loop"
    /\ final' = Append(final, "coverage_report")
    /\ pc' = "report"
    /\ UNCHANGED <<trx, fvars, seq_args, reg_keys, runs, regs, got, err, hist, expected, sb, cvars, mce>>

\* run_tb after await self.run(): self.report_coverage_final()
RunTbReport ==
    /\ pc = "done"
    /\ final' = Append(final, "coverage_report")
    /\ pc' = "report"
    /\ UNCHANGED <<trx, fvars, seq_args, reg_keys, runs, regs, got, err, hist, expected, sb, cvars, mce>>

\* run_tb: raise self.scoreboard.result
RunTbRaise ==
    /\ pc = "report"
    /\ final' = Append(final, result(sb, expected))
    /\ pc' = "finished"
    /\ UNCHANGED <<trx, fvars, seq_args, reg_keys, runs, regs, got, err, hist, expected, sb, cvars, mce>>

\* mutant: the pulse task drops the written values of the register model
MceToggle_ResetsRegs ==
    /\ mce.pc # "off"
    /\ pc \notin {"aborted", "finished"}
    /\ mce' = IF mce.pc = "high" THEN [pc |-> "low", value |-> 0]
              ELSE [pc |-> "high", value |-> 1]
    /\ regs' = [n \in DOMAIN regs |-> [regs[n] EXCEPT !.reg_value = None]]
    /\ UNCHANGED <<trx, fvars, pc, seq_args, reg_keys, runs, got, err, hist, svars, cvars>>

\* emulate_mce_frame while the test runs: after the first Timer and after
\* every low phase I_MCE = 1, after every high phase I_MCE = 0; the lengths of
\* the phases are random, so a toggle may fall between any two steps
MceToggle ==
    /\ mce.pc # "off"
    /\ pc \notin {"aborted", "finished"}
    /\ mce' = IF mce.pc = "high" THEN [pc |-> "low", value |-> 0]
              ELSE [pc |-> "high", value |-> 1]
    /\ UNCHANGED <<trx, fvars, tvars, cvars>>

\* the outcomes of randomize that SpecRun follows bit by bit: the 'mid' class
\* with the draws 1 and 9 (the reset code) for a Write, 1 for a Read
RunDraw ==
    pc' = "body" =>
        /\ trx'.reg_data_range = "mid"
        /\ trx'.reg_data \in (IF trx'.wrn = 0 THEN {1} ELSE {1, 9})

\* the coroutines of the driver and of the monitor while a send is awaited
FrameStep ==
    \/ DrvStart
    \/ GenStart
    \/ GenRise
    \/ GenFall
    \/ GenEnd
    \/ DrvBit
    \/ DrvBitNext
    \/ DrvRelease
    \/ DrvPauseEnd
    \/ DrvRandPause
    \/ MonStart
    \/ MonSample
    \/ MonRespStart
    \/ MonRespSample
    \/ MonRespNext
    \/ MonRespEnd

\* RockTestBench(dut) as in Init: Scoreboard(dut.dtop_dut, fail_immediately=True)
InitRun ==
    /\ trx = TrxNone
    /\ chip_addr = 0
    /\ rsp = [chip |-> 0, data |-> 0, status |-> 0]
    /\ xbit = NoX
    /\ bus = [cs_n |-> 1, sclk |-> 0, mosi |-> X, miso |-> X]
    /\ gen = [pc |-> "off", k |-> 0, frame |-> 0]
    /\ drv = [pc |-> "idle", i |-> 0, pause |-> 0]
    /\ mon = MonInit
    /\ wake = {}
    /\ received = << >>
    /\ driven = << >>
    /\ windows = << >>
    /\ seq_args \in {<<"stop", "cfg">>, <<"cfg">>}
    /\ runs = 0
    /\ regs = init(cfg_regs)
    /\ reg_keys = cfg_reg_names
    /\ got = << >>
    /\ hist = << >>
    /\ expected = << >>
    /\ sb = [fail_immediately |-> TRUE, errors |-> 0]
    /\ final = << >>
    /\ samples = 0
    /\ updates = 0
    /\ mce = MceInit
    /\ \/ pc = "start" /\ err = "none" /\ cov = CovInit(at_least_default)
       \/ pc = "unbuilt" /\ err = "AttributeError" /\ cov = << >>

NextRun ==
    \/ RunStart
    \/ (SeqNext /\ RunDraw)
    \/ RunBody
    \/ SendCall
    \/ (pc = "sending" /\ Pending /\ Deliver)
    \/ (pc = "sending" /\ ~Pending /\ MonitorFailed)
    \/ (pc = "sending" /\ ~Pending /\ mon.pc # "failed" /\ FrameStep)
    \/ SendReturn
    \/ Collect
    \/ RunTbReport
    \/ RunTbRaise
    \/ MceToggle

SpecRun == InitRun /\ [][NextRun]_vars

\* SpecRun under the scheduler of the simulator: simulation time advances, so
\* a task that can resume (the sequencer, run, the driver, the clock
\* generator, the monitor, run_tb) does resume, however the pulse task toggles
SpecRunFair ==
    /\ InitRun
    /\ [][NextRun]_vars
    /\ WF_vars(\/ RunStart
               \/ (SeqNext /\ RunDraw)
               \/ RunBody
               \/ SendCall
               \/ (pc = "sending" /\ Pending /\ Deliver)
               \/ (pc = "sending" /\ ~Pending /\ MonitorFailed)
               \/ (pc = "sending" /\ ~Pending /\ mon.pc # "failed" /\ FrameStep)
               \/ SendReturn
               \/ Collect
               \/ RunTbReport
               \/ RunTbRaise)

----------------------------------------------------------------------------
(* Spec: run_tb with every outcome of randomize for the first transaction   *)

\* the outcomes of randomize that Spec follows: every register, direction,
\* data-range class and mid draw for the first transaction, a 'max1' Read of
\* every register for the second
SpecDraw ==
    pc' = "body" =>
        \/ runs = 0
        \/ trx'.wrn = 0 /\ trx'.reg_data_range = "max1"

\* the answers of the device that Spec follows: every answer to the first
\* transaction; the chip address asked for and status Ok, with the predicted
\* data or another, to the second
SpecRsp ==
    pc' = "sending" =>
        \/ runs = 0
        \/ rsp'.chip = chip_addr /\ rsp'.status = 0

Next ==
    \/ RunStart
    \/ (SeqNext /\ SpecDraw)
    \/ RunBody
    \/ (SendCall /\ SpecRsp)
    \/ (pc = "sending" /\ Pending /\ Deliver)
    \/ (pc = "sending" /\ ~Pending /\ MonitorFailed)
    \/ (pc = "sending" /\ ~Pending /\ mon.pc # "failed" /\ FrameStep)
    \/ SendReturn
    \/ Collect
    \/ RunTbReport
    \/ RunTbRaise
    \/ MceToggle

Spec == Init /\ [][Next]_vars

----------------------------------------------------------------------------
(* Claims about the loop and the cross accounting                           *)

\* the generator of sequencer has exited: its while condition was true, or
\* Trx(*args) raised before the loop (RunStart); a run that is aborted while a
\* transaction is sent leaves it suspended at its yield
SequencerEnded ==
    \/ pc \in {"done", "report", "finished"}
    \/ pc = "aborted" /\ mce.pc # "off" /\ Len(seq_args) # 1

\* C9: transactions are generated until runs >= max_runs or the cross is 100 %
\* covered: none is generated while that condition holds, and the loop is
\* over only when it holds.
C9_StopCondition ==
    /\ pc = "body" => ~stop
    /\ SequencerEnded => stop

\* number of joint bins holding b in dimension i that are below the threshold
OpenDescendants(x, i, b) ==
    Cardinality({h \in DOMAIN x.hits : h[i] = b /\ x.hits[h] < x.at_least})

CountIs(cnt, b, n) == IF b \in DOMAIN cnt THEN cnt[b] = n /\ cnt[b] >= 0 ELSE n = 0

\* C10: for every dimension and every bin, bin_cnt equals the number of
\* non-ignored joint bins that hold the bin and have not reached at_least
\* (from construction on), and is never negative, after construction and after
\* any sequence of samples (updates = 0: update_covered_bins has run only as
\* part of a sample).
C10_CrossAccounting ==
    updates = 0 =>
        LET x == cov.cross
        IN  /\ \A b \in SeqToSet(reg_names) :
                  CountIs(x.bin_cnt.reg_name, b, OpenDescendants(x, 1, b))
            /\ \A b \in SeqToSet(rw_bins) :
                  CountIs(x.bin_cnt.rw, b, OpenDescendants(x, 2, b))
            /\ \A b \in SeqToSet(reg_data_bins) :
                  CountIs(x.bin_cnt.reg_data, b, OpenDescendants(x, 3, b))

C10_Witness ==
    /\ pc = "cover"
    /\ updates = 0
    /\ cov.cross.at_least = 1
    /\ cov.cross.hits[<<"gamma", 1, "mid">>] = 2
    /\ cov.cross.bin_cnt.reg_name["gamma"] = 0

----------------------------------------------------------------------------
(* Claims about the covered-bins lists                                      *)

NoDuplicate(q) == \A i, j \in 1..Len(q) : q[i] = q[j] => i = j

\* the covered list of a cover point holds exactly the bins whose hit count
\* has reached at_least, each once
CoveredOnce(c) ==
    /\ NoDuplicate(c.covered)
    /\ SeqToSet(c.covered) = {b \in DOMAIN c.hits : c.hits[b] >= c.at_least}

\* C11: after any sequence of samples every cover point's covered_bins holds a
\* bin exactly when its hit count has reached at_least, and holds it once: the
\* bin is appended at the sample in which the count becomes at_least and never
\* again (updates = 0: update_covered_bins has run only as part of a sample).
C11_CoveredExactlyOnce ==
    updates = 0 =>
        /\ CoveredOnce(cov.reg_name)
        /\ CoveredOnce(cov.rw)
        /\ CoveredOnce(cov.reg_data)

C11_Witness ==
    /\ pc = "cover"
    /\ updates = 0
    /\ cov.reg_data.at_least = 2
    /\ cov.reg_data.hits["mid"] = 4
    /\ cov.reg_data.covered = <<"mid">>
    /\ cov.reg_name.hits["res"] = 3
    /\ cov.reg_name.covered = <<"res">>

\* a covered list after a step holds everything it held before
Grows(old, new) == Len(old) <= Len(new) /\ SeqToSet(old) \subseteq SeqToSet(new)

CoveredWithinBins ==
    /\ SeqToSet(cov.reg_name.covered) \subseteq SeqToSet(reg_names)
    /\ SeqToSet(cov.rw.covered) \subseteq SeqToSet(rw_bins)
    /\ SeqToSet(cov.reg_data.covered) \subseteq SeqToSet(reg_data_bins)
    /\ SeqToSet(cov.cross.covered.reg_name) \subseteq SeqToSet(reg_names)
    /\ SeqToSet(cov.cross.covered.rw) \subseteq SeqToSet(rw_bins)
    /\ SeqToSet(cov.cross.covered.reg_data) \subseteq SeqToSet(reg_data_bins)

CoveredGrow ==
    /\ Grows(cov.reg_name.covered, cov'.reg_name.covered)
    /\ Grows(cov.rw.covered, cov'.rw.covered)
    /\ Grows(cov.reg_data.covered, cov'.reg_data.covered)
    /\ Grows(cov.cross.covered.reg_name, cov'.cross.covered.reg_name)
    /\ Grows(cov.cross.covered.rw, cov'.cross.covered.rw)
    /\ Grows(cov.cross.covered.reg_data, cov'.cross.covered.reg_data)

\* C12: no sample (and no call of update_covered_bins made outside a sample)
\* removes an element from covered_bins of a cover point or from a
\* per-dimension covered list of the cross, and every element of a covered
\* list is a bin of the corresponding cover point.
C12_CoveredMonotone == [](CoveredWithinBins) /\ [][CoveredGrow]_vars

C12_Witness ==
    /\ pc = "cover"
    /\ updates = 0
    /\ cov.cross.covered.reg_name = <<"gamma">>
    /\ Len(cov.reg_data.covered) = 5
    /\ Len(cov.rw.covered) = 2

----------------------------------------------------------------------------
(* Claims about the expectation queue, the scoreboard and the verdict       *)

\* C13: one expectation is pushed per transaction before its first bit is
\* driven (the queue holds it while the transaction is sent and its triple not
\* yet delivered), a returned triple finds it, every delivered triple has been
\* compared with it and has removed it, the queue never holds more than one
\* entry and is empty once the loop is over.
C13_ExpectationQueue ==
    /\ Len(expected) <= 1
    /\ (pc \in {"send", "sending"} /\ Len(hist) = runs) => expected = <<runs>>
    /\ Pending => expected # << >>
    /\ Len(hist) > runs => expected = << >>
    /\ pc \in {"done", "report", "finished"} => expected = << >>

\* the device answered the transaction with something else than predicted
WrongAnswer(h) ==
    h.got # <<h.wrn, h.reg_addr, IF h.wrn = 0 THEN h.expected ELSE h.reg_data>>

\* C14: a delivered triple that differs from its expectation is counted; in
\* fail-immediately mode it is the last transaction of the run, which ends with
\* TestFailure; otherwise the verdict of run_tb is TestFailure.
C14_MismatchNeverDropped ==
    \A k \in 1..Len(hist) :
        WrongAnswer(hist[k]) =>
            /\ sb.errors >= 1
            /\ sb.fail_immediately =>
                  (k = Len(hist) /\ runs = k - 1 /\ pc = "aborted" /\ err = "TestFailure")
            /\ ~sb.fail_immediately => (Len(final) = 2 => final[2] = "TestFailure")

C14_Witness ==
    /\ sb.fail_immediately
    /\ Len(hist) = 2
    /\ WrongAnswer(hist[2])
    /\ err = "TestFailure"

\* C15: run_tb reports the coverage and then raises the scoreboard's result,
\* once, after the loop is over and the last transaction has been sent and
\* delivered completely; the result is TestSuccess only if no mismatch was
\* counted.
C15_Verdict ==
    /\ Len(final) <= 2
    /\ final # << >> =>
          /\ final[1] = "coverage_report"
          /\ pc \in {"report", "finished"}
          /\ test_goal_achieved
          /\ Len(hist) = runs
          /\ drv.pc = "idle" /\ gen.pc = "off" /\ bus.cs_n = 1
    /\ pc = "finished" <=> Len(final) = 2
    /\ Len(final) = 2 =>
          /\ final[2] \in {"TestSuccess", "TestFailure"}
          /\ final[2] = "TestSuccess" =>
                (sb.errors = 0 /\ \A k \in 1..Len(hist) : ~WrongAnswer(hist[k]))

C15_Witness ==
    /\ pc = "finished"
    /\ final = <<"coverage_report", "TestSuccess">>
    /\ runs = max_runs
    /\ Len(hist) = max_runs
    /\ hist[1].wrn = 1
    /\ hist[2].wrn = 0
    /\ hist[2].got[3] = hist[1].reg_data
    /\ sb.errors = 0

\* chip-select windows the transactions of hist account for
RECURSIVE WindowsOf(_)
WindowsOf(h) ==
    IF h = << >> THEN 0 ELSE (IF h[1].wrn = 0 THEN 2 ELSE 1) + WindowsOf(Tail(h))

\* C20: while run generates, predicts, collects or is over, no send is in
\* progress: driver_send and gen_cs_sclk are not running, chip select is
\* released and every transaction sent so far has had its complete window(s)
\* of 32 clocks, one for a Write and two for a Read.
C20_OneInFlight ==
    /\ pc \in {"start", "loop", "body", "send", "collect", "done", "report", "finished"} =>
          /\ drv.pc = "idle" /\ gen.pc = "off" /\ mon.pc = "idle" /\ wake = {}
          /\ bus.cs_n = 1
          /\ Len(windows) = WindowsOf(hist)
    /\ \A w \in 1..Len(windows) : windows[w] = n_sclk
    /\ pc = "sending" =>
          /\ Len(windows) >= WindowsOf(SubSeq(hist, 1, runs))
          /\ Len(windows) <= WindowsOf(SubSeq(hist, 1, runs)) + (IF trx.wrn = 0 THEN 2 ELSE 1)

C20_Witness ==
    /\ pc = "body"
    /\ runs = 1
    /\ hist[1].wrn = 0
    /\ Len(windows) = 2

----------------------------------------------------------------------------
(* Claims about the pulse task                                              *)

\* C24: a step of emulate_mce_frame changes nothing but I_MCE (and its own
\* position): the register model, the expectation queue, the scoreboard, the
\* coverage state, runs, the transaction, the SPI signals and the coroutines
\* of the driver and of the monitor are as before; I_MCE is 0 or 1, and 0
\* until the task has run.
C24_PulseTaskFrame ==
    /\ [](mce.value \in {0, 1} /\ (mce.pc \in {"off", "wait"} => mce.value = 0))
    /\ [][(mce.pc # "off" /\ mce' # mce) =>
            UNCHANGED <<regs, expected, sb, cov, samples, runs, bus, trx, gen, drv, mon,
                        wake, received, hist, pc>>]_vars

C24_Witness ==
    /\ pc = "sending"
    /\ mce = [pc |-> "high", value |-> 1]
    /\ mon.pc = "rx_resp"
    /\ mon.i = 12
    /\ Len(hist) = 1
    /\ expected = <<1>>

----------------------------------------------------------------------------
(* Claims about the loop of run with the frames on the bus                  *)

\* C26: whenever the goal condition is evaluated, and when the loop is over,
\* every transaction sent so far has had all its frames and pauses (the
\* driver, the clock generator and the monitor are idle, one window per Write
\* and two per Read), its triple has been delivered, its coverage has been
\* sampled and it has been counted in runs; the loop is left only from an
\* evaluation of the goal condition that holds, and a send in progress is
\* ended by nothing but its own completion or an error of the test.
C26_NoCancellation ==
    /\ [](pc \in {"loop", "done"} =>
            /\ Len(hist) = runs /\ samples = runs /\ Len(received) = runs
            /\ drv.pc = "idle" /\ gen.pc = "off" /\ mon.pc = "idle" /\ wake = {}
            /\ Len(windows) = WindowsOf(hist)
            /\ pc = "done" => test_goal_achieved)
    /\ [][/\ (pc' = "done" /\ pc # "done") => (pc = "loop" /\ test_goal_achieved)
          /\ (pc = "sending" /\ pc' # "sending") =>
               \/ (pc' = "collect" /\ drv.pc = "done" /\ Len(hist) = runs + 1)
               \/ (pc' = "aborted" /\ err' # "none")]_vars

C26_Witness ==
    /\ pc = "done"
    /\ runs = 2
    /\ samples = 2
    /\ hist[1].wrn = 1
    /\ hist[2].wrn = 0
    /\ windows = <<32, 32, 32>>

----------------------------------------------------------------------------
(* Claims about the covered lists of the cross                              *)

\* C27: a sample decrements the descendant count of a bin once for each of its
\* non-ignored joint bins whose hit count reaches at_least in that sample, and
\* for no other; after any sequence of samples (updates = 0:
\* update_covered_bins has run only as part of a sample) a bin is in the
\* covered list of its dimension exactly when it has a non-ignored joint bin
\* and all of them have reached at_least, and it is there at most once.
C27_CrossCovered ==
    /\ [](updates = 0 =>
            LET Desc(i, b) == {h \in CrossBins : h[i] = b}
                Done(i, b) == /\ Desc(i, b) # {}
                              /\ \A h \in Desc(i, b) : cov.cross.hits[h] >= cov.cross.at_least
            IN  /\ NoDuplicate(cov.cross.covered.reg_name)
                /\ NoDuplicate(cov.cross.covered.rw)
                /\ NoDuplicate(cov.cross.covered.reg_data)
                /\ \A b \in SeqToSet(reg_names) :
                      b \in SeqToSet(cov.cross.covered.reg_name) <=> Done(1, b)
                /\ \A b \in SeqToSet(rw_bins) :
                      b \in SeqToSet(cov.cross.covered.rw) <=> Done(2, b)
                /\ \A b \in SeqToSet(reg_data_bins) :
                      b \in SeqToSet(cov.cross.covered.reg_data) <=> Done(3, b))
    /\ [][samples' # samples =>
            LET Fresh(i, b) == {h \in CrossBins :
                                   /\ h[i] = b
                                   /\ cov.cross.hits[h] < cov.cross.at_least
                                   /\ cov'.cross.hits[h] >= cov.cross.at_least}
            IN  /\ \A b \in DOMAIN cov.cross.bin_cnt.reg_name :
                      cov'.cross.bin_cnt.reg_name[b] =
                          cov.cross.bin_cnt.reg_name[b] - Cardinality(Fresh(1, b))
                /\ \A b \in DOMAIN cov.cross.bin_cnt.rw :
                      cov'.cross.bin_cnt.rw[b] =
                          cov.cross.bin_cnt.rw[b] - Cardinality(Fresh(2, b))
                /\ \A b \in DOMAIN cov.cross.bin_cnt.reg_data :
                      cov'.cross.bin_cnt.reg_data[b] =
                          cov.cross.bin_cnt.reg_data[b] - Cardinality(Fresh(3, b))]_vars

C27_Witness ==
    /\ pc = "cover"
    /\ updates = 0
    /\ cov.cross.at_least = 1
    /\ cov.cross.covered.reg_name = <<"gamma">>
    /\ cov.cross.bin_cnt.reg_name["gamma"] = 0
    /\ cov.cross.hits[<<"gamma", 0, "mid">>] = 2
    /\ cov.cross.covered.rw = << >>

----------------------------------------------------------------------------
(* Claims about the receive path                                            *)

\* C28: receive leaves its idle state only with chip select low, for bit
\* index 31 of the request frame; from index 0 of the request frame it goes
\* back to idle returning a triple (a Write) or waits for the response (a
\* Read), whose frame it enters with chip select low at index 31 and leaves at
\* index 0 to wait for chip select to rise, on which it returns the triple and
\* is idle again; the indices go down by one; a triple is returned by these
\* two steps only, one per transaction: none while the transaction is sent,
\* one when its send is over.
C28_ReceivePath ==
    /\ [](/\ Len(received) \in {runs, runs + 1}
          /\ (pc = "sending" /\ mon.pc # "idle") => Len(received) = runs
          /\ pc = "collect" => (Len(received) = runs + 1 /\ mon.pc = "idle"))
    /\ [][/\ mon'.pc # mon.pc =>
               \/ /\ mon.pc = "idle" /\ mon'.pc = "rx"
                  /\ bus.cs_n = 0 /\ mon'.i = n_sclk - 1 /\ gen.k = 0
               \/ /\ mon.pc = "rx" /\ mon'.pc = "idle"
                  /\ mon.i = 0 /\ mon'.wrn = 1 /\ Len(driven) = n_sclk
                  /\ received' = Append(received, Triple(mon'))
               \/ /\ mon.pc = "rx" /\ mon'.pc = "await_resp"
                  /\ mon.i = 0 /\ mon'.wrn = 0 /\ Len(driven) = n_sclk
               \/ /\ mon.pc = "await_resp" /\ mon'.pc = "rx_resp"
                  /\ bus.cs_n = 0 /\ mon'.i = n_sclk - 1 /\ gen.frame = 2 /\ gen.k = 0
               \/ /\ mon.pc = "rx_resp" /\ mon'.pc = "resp_wait"
                  /\ mon'.i = mon.i
               \/ /\ mon.pc = "resp_wait" /\ mon'.pc = "rx_resp"
                  /\ mon.i > 0 /\ mon'.i = mon.i - 1
               \/ /\ mon.pc = "resp_wait" /\ mon'.pc = "await_cs_re"
                  /\ mon.i = 0 /\ mon'.i = 0 /\ gen.k = n_sclk
               \/ /\ mon.pc = "await_cs_re" /\ mon'.pc = "idle"
                  /\ bus.cs_n = 1
                  /\ received' = Append(received, Triple(mon))
               \/ /\ mon.pc \in {"rx", "rx_resp"} /\ mon'.pc = "failed"
          /\ (mon'.pc = mon.pc /\ mon' # mon) =>
               (mon.pc = "rx" /\ mon'.i = mon.i - 1)
          /\ received' # received =>
               (mon'.pc = "idle" /\ mon.pc \in {"rx", "await_cs_re"})]_vars

C28_Witness ==
    /\ pc = "collect"
    /\ runs = 1
    /\ Len(received) = 2
    /\ received[1][1] = 0
    /\ received[2][1] = 1
    /\ mon.pc = "idle"

----------------------------------------------------------------------------
(* Claims about the coverage sample of a transaction                        *)

\* C30: every triple receive returns is handed to the scoreboard, which pops
\* and compares its expectation, and, unless that comparison ends the run, to
\* the coverage: the coverage is sampled once per delivered triple, after the
\* send and before runs is incremented, with the direction and the data of
\* the triple receive returned.
C30_EveryTripleReported ==
    /\ [](pc = "collect" => Len(hist) = samples + 1)
    /\ [][/\ Len(hist') > Len(hist) =>
               /\ expected # << >> /\ expected' = Tail(expected)
               /\ err' \in {"none", "TestFailure"}
               /\ err' = "none" => pc' = "sending"
          /\ samples' # samples =>
               /\ samples' = samples + 1 /\ samples = runs /\ Len(hist) = runs + 1
               /\ drv.pc = "idle" /\ gen.pc = "off" /\ mon.pc = "idle"
               /\ cov' = collect(cov, regs, [trx EXCEPT !.wrn = got[1], !.reg_data = got[3],
                                                        !.read_reg_data_expected = got[3]])]_vars

----------------------------------------------------------------------------
(* Claims about _update_covered_bins of cocotb_cover.py                      *)

\* C31 (as stated): at the sample in which the descendant count of a bin of
\* a dimension of the cross reaches zero, the bin is appended to the covered
\* list of that dimension.
C31_ProcessorCrossCovered ==
    [][/\ \A b \in DOMAIN cov.cross.bin_cnt.reg_name :
            (cov.cross.bin_cnt.reg_name[b] # 0 /\ cov'.cross.bin_cnt.reg_name[b] = 0)
                => b \in SeqToSet(cov'.cross.covered.reg_name)
       /\ \A b \in DOMAIN cov.cross.bin_cnt.rw :
            (cov.cross.bin_cnt.rw[b] # 0 /\ cov'.cross.bin_cnt.rw[b] = 0)
                => b \in SeqToSet(cov'.cross.covered.rw)
       /\ \A b \in DOMAIN cov.cross.bin_cnt.reg_data :
            (cov.cross.bin_cnt.reg_data[b] # 0 /\ cov'.cross.bin_cnt.reg_data[b] = 0)
                => b \in SeqToSet(cov'.cross.covered.reg_data)]_vars

----------------------------------------------------------------------------
(* Claims about the runs counter                                            *)

\* C32: runs never exceeds max_runs; between two iterations it is the number
\* of transactions whose frames were transmitted and delivered, and at most
\* one more is under way; it changes only by one, when a send has returned,
\* together with the coverage sample of that transaction; the loop is left
\* only with runs = max_runs, whatever the coverage is; and every run ends:
\* with the verdict after max_runs iterations, or with a failure.
C32_RunsCounter ==
    /\ [](/\ runs <= max_runs
          /\ samples = runs
          /\ Len(hist) \in {runs, runs + 1}
          /\ pc \in {"loop", "body", "send", "done", "report", "finished"} => Len(hist) = runs
          /\ pc = "collect" => Len(hist) = runs + 1
          /\ pc \in {"done", "report", "finished"} => runs = max_runs)
    /\ [][runs' # runs =>
            /\ runs' = runs + 1
            /\ pc = "collect" /\ pc' = "loop"
            /\ drv.pc = "idle"
            /\ samples' = samples + 1
            /\ Len(hist') = runs']_vars
    /\ <>(pc \in {"finished", "aborted", "unbuilt"})

C32_Witness ==
    /\ pc = "finished"
    /\ runs = max_runs
    /\ Len(hist) = max_runs
    /\ samples = max_runs
    /\ cover_percentage(cov.cross) < 100
    /\ mce.pc # "off"

----------------------------------------------------------------------------
(* Claims about the shared transaction object                               *)

\* C33: the fields of the one transaction object change only in the sequencer
\* (randomize) and in the body of run (the expected read value), and then the
\* triples of all earlier transactions have been returned by receive and
\* handed to the callbacks, the monitor waits for the next frame, the driver
\* is idle and no expectation is queued; a triple is delivered while the send
\* of its transaction is awaited, the expectation popped for it is the one of
\* that transaction, and the object still holds the fields its request frame
\* was driven from; and driver_send is never over before the delivery.
C33_SharedTransaction ==
    /\ []((pc = "sending" /\ drv.pc = "done") =>
             (Len(received) = runs + 1 /\ Len(hist) = runs + 1 /\ mon.pc = "idle"))
    /\ [][trx' # trx =>
            /\ pc \in {"loop", "body"}
            /\ Len(received) = runs
            /\ Len(hist) = runs
            /\ mon.pc = "idle"
            /\ drv.pc = "idle"
            /\ expected = << >>]_vars
    /\ [][hist' # hist =>
            LET g == received[Len(received)]
            IN  /\ pc = "sending"
                /\ trx' = trx
                /\ Len(received) = runs + 1
                /\ expected = <<runs>>
                /\ g[1] = trx.wrn
                /\ g[2] = trx.reg_addr
                /\ trx.wrn = 1 => g[3] = trx.reg_data
                /\ hist' = Append(hist, Sent(trx, g))
                /\ (err' = "none" /\ sb'.errors = sb.errors) => g = x_fn(trx)
                /\ (g # x_fn(trx) /\ ~IsResetTrx(g)) => sb'.errors = sb.errors + 1]_vars

C33_Witness ==
    /\ pc = "body"
    /\ runs = 1
    /\ Len(hist) = 1
    /\ hist[1].wrn = 0
    /\ hist[1].got = <<0, hist[1].reg_addr, hist[1].expected>>
    /\ trx.wrn = 1
    /\ trx.reg_name # hist[1].reg_name
    /\ expected = << >>
    /\ mon.pc = "idle"

----------------------------------------------------------------------------
(* Claims about the reachability of the joint bins of the cross             *)

\* C34 (as stated): every non-ignored joint bin (register name, read/write,
\* data bin) of the cross is hit by some transaction the bench can sample: a
\* Write the generator can produce for the register, or a Read whose expected
\* value is the reset value of the register or a value that can be written to
\* it.
C34_EveryJointBinHittable ==
    \A h \in CrossBins :
        LET n == h[1]
            written == IF regs[n].r_w = 1 THEN WriteValues(regs, n) ELSE {}
            values == IF h[2] = 1 THEN written
                      ELSE written \cup {ExpectedRead(init(cfg_regs), n)}
        IN  \E v \in values :
                rel_reg_data(regs, [reg_name |-> n, wrn |-> h[2], reg_data |-> v,
                                    read_reg_data_expected |-> v], h[3])

----------------------------------------------------------------------------
(* Claims about the generated transaction and check_trx                     *)

\* C35: every transaction the sequencer yields, of every register and every
\* data-range class, has integer wrn, reg_addr and reg_data with wrn in
\* {0, 1}, 0 <= reg_addr < 2^8 and 0 <= reg_data < 2^16, so check_trx accepts
\* it; the only assertion errors of a run are those of receive and the one of
\* the construction of the transaction object, before any transaction is
\* generated.
C35_GeneratedWellFormed ==
    /\ Generated =>
          /\ trx.wrn # None /\ trx.reg_addr # None /\ trx.reg_data # None
          /\ trx.wrn \in {0, 1}
          /\ 0 <= trx.reg_addr /\ trx.reg_addr < Pow2(AddrBits)
          /\ 0 <= trx.reg_data /\ trx.reg_data < Pow2(DataBits)
          /\ check_trx(trx)
    /\ (err = "AssertionError" /\ mon.pc # "failed") =>
          (hist = << >> /\ runs = 0 /\ trx = TrxNone)

C35_Witness ==
    /\ pc = "collect"
    /\ Len(hist) = 2
    /\ hist[1].reg_name = "gamma" /\ hist[1].reg_data = 0
    /\ trx.reg_name = "CHIP_ID_ADDR"
    /\ trx.wrn = 0
    /\ trx.reg_data_range = "max1"
    /\ trx.reg_data = Pow2(DataBits) - 1

----------------------------------------------------------------------------
(* Claims about the expected read value and the stored written value        *)

\* C36: from the push of the expectation, through the frames and until the
\* coverage sample, a Read holds an expected value: the data of the latest
\* earlier Write of its register if there is one, else the reset value of the
\* register if it has one, else 0; a Write holds none, and the register model
\* holds its data as the written value of its register; a written value
\* changes only in the body of run, before the push and the send, for the
\* register of a Write and to the data of that Write.
C36_ExpectedAndStored ==
    /\ [](pc \in {"send", "sending", "collect"} =>
            LET n == trx.reg_name
                W == {k \in 1..runs : hist[k].wrn = 1 /\ hist[k].reg_name = n}
                last == CHOOSE k \in W : \A j \in W : j <= k
            IN  /\ expected # << >> \/ Len(hist) = runs + 1
                /\ trx.wrn = 0 =>
                      /\ trx.read_reg_data_expected # None
                      /\ trx.read_reg_data_expected =
                            IF W # {} THEN hist[last].reg_data
                            ELSE IF regs[n].reset_reg_value # None
                                 THEN regs[n].reset_reg_value ELSE 0
                /\ trx.wrn = 1 =>
                      /\ trx.read_reg_data_expected = None
                      /\ regs[n].reg_value = trx.reg_data)
    /\ [][/\ \A m \in DOMAIN regs :
                regs'[m].reg_value # regs[m].reg_value =>
                    /\ pc = "body" /\ pc' = "send"
                    /\ trx.wrn = 1 /\ m = trx.reg_name
                    /\ regs'[m].reg_value = trx.reg_data
                    /\ drv.pc = "idle" /\ Len(hist) = runs
          /\ Len(expected') > Len(expected) =>
                /\ pc = "body"
                /\ trx'.wrn = 0 => trx'.read_reg_data_expected = ExpectedRead(regs, trx.reg_name)
                /\ trx'.wrn = 1 => regs'[trx.reg_name].reg_value = trx.reg_data]_vars

C36_Witness ==
    /\ pc = "collect"
    /\ Len(hist) = 2
    /\ hist[1].wrn = 1 /\ hist[1].reg_name = "psi" /\ hist[1].reg_data = 1
    /\ trx.wrn = 0 /\ trx.reg_name = "psi"
    /\ trx.read_reg_data_expected = 1
    /\ regs["psi"].reg_value = 1
    /\ regs["res"].reg_value = None

====
